---- MODULE Spec2Model ----
(***************************************************************************)
(* The session/correlation layer of the Vitrus SDK client (class Vitrus    *)
(* and class Actor): connection lifecycle and handshake, request-id based  *)
(* response correlation, the local command registry and its replay, and    *)
(* the handling of inbound COMMAND frames.                                  *)
(*                                                                         *)
(* The program is single-threaded JavaScript.  A step of the model is one  *)
(* synchronous run of code: an API call up to its first pending await, a   *)
(* transport event callback, the completion of a command handler, or the   *)
(* continuation of an await whose promise has settled.  Continuations are  *)
(* microtasks: a transport event is delivered when none is runnable, or    *)
(* right after another event of the same synchronous run: the 'message'    *)
(* events of one read, and the 'error' and 'close' of a failed connect.    *)
(*                                                                         *)
(* The code is src/unnamed/part_001.  The listing of the class in          *)
(* src/README.md is a later version: it adds disconnectIfActor, listeners  *)
(* for 'error' and 'close' while the handshake is awaited, and the close   *)
(* code in the messages of the close handler.  scope.listing tells which   *)
(* of the two a behaviour runs.                                            *)
(***************************************************************************)
EXTENDS Integers, Sequences, FiniteSets, TLC

\* ---------------------------------------------------------------- bounds
MaxTransports == 2      \* WebSocket instances created in one behaviour
MaxCalls == 3           \* API calls (connect, authenticate, actor, ...) made
MaxTasks == 1           \* inbound COMMAND frames that found a handler
MaxSent == 4            \* frames written to transports
NumRequestIds == 3      \* distinct values generateRequestId can return

\* ------------------------------------------------------------ value sets
None == "none"                       \* undefined / absent
Null == "null"                       \* the JavaScript value null
Actors == {"A", "B"}
Commands == {"c1", "c2"}
Handlers == {"h1", "h2"}
RequestIds == 1..NumRequestIds       \* 0 stands for no request id
Undef == "undef"                     \* a field absent from a JSON frame
ClientIds == {"cid1"}
\* `clientId` of a success HANDSHAKE_RESPONSE: the code stores what arrives
HandshakeClientIds == ClientIds \cup {Undef}
\* Close codes of the 'close' event: no status received, abnormal closure
CloseCodes == {1005, 1006}
ApiKey == "key1"                     \* constructor option `apiKey`
InboundRequestIds == {1}             \* requestId of inbound COMMAND frames
SourceChannels == {None, "ch1"}
\* The result and the error text the server holds for the request with id i
ResultNames == << "v1", "v2", "v3", "v4" >>
ErrorNames == << "e1", "e2", "e3", "e4" >>
ResultFor(i) == ResultNames[i]
ErrorFor(i) == ErrorNames[i]
\* What a command handler of this process returns, and the message it throws
HandlerResult == "hv"
HandlerErrorMessage == "herr"
\* The message of the TypeError thrown by `handler(...args)` when `args` is
\* undefined (the text is the JavaScript engine's).
ArgsNotIterableError == "args is not iterable (cannot read property undefined)"
ErrorCodes ==
    {None, "invalid_api_key", "world_not_found", "world_not_found_handshake"}
ServerMessages ==
    {None, "", "srvmsg", "Actors require a worldId",
     "Error: Actors require a worldId to connect"}

\* WebSocket readyState values (the source names OPEN only)
OPEN == "OPEN"
CONNECTING == "CONNECTING"
CLOSING == "CLOSING"
CLOSED == "CLOSED"

VARIABLES
    scope,                  \* how far this behaviour is explored (never changes)
    worldId,                \* constructor option `world` (None when omitted)
    ws,                     \* index of the current WebSocket in transports, 0 = null
    connected,
    authenticated,
    clientId,
    actorName,
    connectionPromise,      \* index in promises, 0 = null
    connectionReject,       \* _connectionReject: index in promises, 0 = null
    pendingRequests,        \* requestId -> index of the call holding resolve/reject, 0 = absent
    actorCommandHandlers,   \* actor -> command -> handler (None = no entry)
    actorCommandSignatures, \* actor -> [order: insertion order of keys, types: command -> signature]
    actorMetadata,          \* actor -> metadata (None = no entry)
    transports,             \* every WebSocket created: [readyState, receiving,
                            \* authListener, acked]
    promises,               \* every connectionPromise created: [state, reason]
    sent,                   \* frames passed to ws.send, in order, with the transport used
    calls,                  \* API calls made so far (async function activations)
    tasks,                  \* handler invocations started by inbound COMMAND frames
    handles,                \* actor names for which an Actor object was returned
    delivering              \* t: the last step was a 'message' event of
                            \* transport t and the continuations it made
                            \* runnable have not run yet; -t: the last step was
                            \* the 'error' of a failed connect of t, whose
                            \* 'close' follows in the same run; 0: neither

\* The state of the session and of its environment, without the scheduling flag
session == << scope, worldId, ws, connected, authenticated, clientId, actorName,
              connectionPromise, connectionReject, pendingRequests,
              actorCommandHandlers, actorCommandSignatures, actorMetadata,
              transports, promises, sent, calls, tasks, handles >>

vars == << session, delivering >>

\* The whole state as one record, so that the methods compose as functions.
Cur ==
    [ scope |-> scope, worldId |-> worldId, ws |-> ws, connected |-> connected,
      authenticated |-> authenticated, clientId |-> clientId,
      actorName |-> actorName, connectionPromise |-> connectionPromise,
      connectionReject |-> connectionReject, pendingRequests |-> pendingRequests,
      actorCommandHandlers |-> actorCommandHandlers,
      actorCommandSignatures |-> actorCommandSignatures,
      actorMetadata |-> actorMetadata, transports |-> transports,
      promises |-> promises, sent |-> sent, calls |-> calls, tasks |-> tasks,
      handles |-> handles ]

WithinBounds(s) ==
    /\ Len(s.transports) <= s.scope.transports
    /\ Len(s.calls) <= s.scope.calls
    /\ Len(s.tasks) <= s.scope.tasks
    /\ Len(s.sent) <= s.scope.sent

Assign(s) ==
    /\ WithinBounds(s)
    /\ scope' = s.scope
    /\ worldId' = s.worldId
    /\ ws' = s.ws
    /\ connected' = s.connected
    /\ authenticated' = s.authenticated
    /\ clientId' = s.clientId
    /\ actorName' = s.actorName
    /\ connectionPromise' = s.connectionPromise
    /\ connectionReject' = s.connectionReject
    /\ pendingRequests' = s.pendingRequests
    /\ actorCommandHandlers' = s.actorCommandHandlers
    /\ actorCommandSignatures' = s.actorCommandSignatures
    /\ actorMetadata' = s.actorMetadata
    /\ transports' = s.transports
    /\ promises' = s.promises
    /\ sent' = s.sent
    /\ calls' = s.calls
    /\ tasks' = s.tasks
    /\ handles' = s.handles

\* The end of a step that is not a transport event of a run in progress
Commit(s) ==
    /\ delivering >= 0
    /\ Assign(s)
    /\ delivering' = 0

\* ---------------------------------------------------------------- frames
BlankFrame ==
    [ type |-> None, t |-> 0, actor |-> None, cmd |-> None, rid |-> 0,
      chan |-> None, result |-> Undef, error |-> Undef, meta |-> None,
      sig |-> << >>, apiKey |-> None, world |-> None ]

\* JavaScript truthiness of a value that is a string, an object, null or
\* undefined
Truthy(v) == v \notin {Undef, None, Null, ""}

\* ----------------------------------------------------- parameter types
\* getParameterTypes reads func.toString() at run time, where the type
\* annotations of a TypeScript source are gone. A handler is known by the
\* parameter list of that text, split at ',': each piece with the text that
\* follows its first ':' (None when it holds no ':').
\*   h1 is `(args) => ...`
\*   h2 is `(x, y = {n: 1}) => ...`
HandlerParams(h) ==
    IF h = "h1" THEN << [text |-> "args", after |-> None] >>
    ELSE << [text |-> "x", after |-> None],
            [text |-> "y = {n: 1}", after |-> "1}"] >>

getParameterTypes(h) ==
    LET ps == HandlerParams(h)
    IN  [i \in 1..Len(ps) |-> IF Truthy(ps[i].after) THEN ps[i].after ELSE "any"]

ServerSignature == << "string" >>

\* ------------------------------------------------------------- promises
\* A promise settles once: resolve/reject of a settled promise do nothing.
SettlePromise(s, n, state, reason) ==
    IF n # 0 /\ s.promises[n].state = "pending"
    THEN [s EXCEPT !.promises[n] = [state |-> state, reason |-> reason]]
    ELSE s

\* if (this._connectionReject) { this._connectionReject(err); this._connectionReject = null; }
RejectConnection(s, reason) ==
    IF s.connectionReject # 0
    THEN [SettlePromise(s, s.connectionReject, "rejected", reason)
             EXCEPT !.connectionReject = 0]
    ELSE s

\* resolve/reject stored in pendingRequests or captured by an async call:
\* the promise of call p settles once.
SettleCall(s, p, status, val, by) ==
    IF s.calls[p].pc # "done"
    THEN [s EXCEPT !.calls[p].pc = "done", !.calls[p].out = status,
                   !.calls[p].val = val, !.calls[p].by = by]
    ELSE s

\* -------------------------------------------------------------- connect
\* _establishWebSocketConnection up to its await: a new WebSocket with the
\* open/message/error/close handlers, and waitForAuthentication's listener
\* (waitForAuthentication returns at once when already authenticated).
\* `receiving` tells that the peer has not ended the stream of frames.
EstablishWebSocketConnection(s) ==
    LET n == Len(s.transports) + 1
    IN  [s EXCEPT !.transports = Append(@, [readyState |-> CONNECTING,
                                            receiving |-> TRUE,
                                            authListener |-> ~s.authenticated,
                                            acked |-> FALSE]),
                  !.ws = n]

\* (mutant) connect returns the stored promise only while it is pending
connectUnlessSettled(s, an, md) ==
    IF s.connectionPromise # 0 /\ s.promises[s.connectionPromise].state = "pending"
    THEN s
    ELSE LET name == IF an # None THEN an ELSE s.actorName
             s1 == [s EXCEPT !.actorName = name,
                             !.actorMetadata =
                                 IF name # None /\ Truthy(md)
                                 THEN [@ EXCEPT ![name] = md] ELSE @]
             n == Len(s1.promises) + 1
             s2 == [s1 EXCEPT !.promises = Append(@, [state |-> "pending",
                                                      reason |-> None]),
                              !.connectionReject = n]
             s3 == EstablishWebSocketConnection(s2)
         IN  [s3 EXCEPT !.connectionPromise = n]

\* connect(actorName?, metadata?): the in-flight (or settled) promise is
\* returned when there is one; otherwise a new promise and a new transport.
connect(s, an, md) ==
    IF s.connectionPromise # 0 THEN s
    ELSE LET name == IF an # None THEN an ELSE s.actorName
             s1 == [s EXCEPT !.actorName = name,
                             !.actorMetadata =
                                 IF name # None /\ Truthy(md)
                                 THEN [@ EXCEPT ![name] = md] ELSE @]
             n == Len(s1.promises) + 1
             s2 == [s1 EXCEPT !.promises = Append(@, [state |-> "pending",
                                                      reason |-> None]),
                              !.connectionReject = n]
             s3 == EstablishWebSocketConnection(s2)
             s4 == IF s3.authenticated THEN SettlePromise(s3, n, "resolved", None)
                   ELSE s3
         IN  [s4 EXCEPT !.connectionPromise = n]

\* ---------------------------------------------------------- sendMessage
\* The part of sendMessage after a possible await of connect().
sendNow(s, frame) ==
    IF s.ws # 0 /\ s.transports[s.ws].readyState = OPEN
    THEN [s |-> [s EXCEPT !.sent = Append(@, [frame EXCEPT !.t = s.ws])],
          st |-> "sent"]
    ELSE [s |-> s, st |-> "threw"]

\* sendMessage(message): st is "sent", "threw" (WebSocket is not connected)
\* or "await" (connect() was called and its promise is awaited first).
sendMessage(s, frame) ==
    IF ~s.connected
    THEN [s |-> connect(s, None, None), st |-> "await"]
    ELSE sendNow(s, frame)

NotConnectedError == "WebSocket is not connected"

\* ------------------------------------------------------- transport events
\* ws.on('open'): connected, then the HANDSHAKE through sendMessage; a failed
\* send rejects the connection promise and closes the WebSocket.
\* (mutant) the metadata of the actor is left out of the HANDSHAKE
HandshakeFrameWithoutMetadata(s) ==
    [BlankFrame EXCEPT !.type = "HANDSHAKE", !.apiKey = ApiKey,
                       !.world = s.worldId, !.actor = s.actorName]

HandshakeFrame(s) ==
    [BlankFrame EXCEPT !.type = "HANDSHAKE", !.apiKey = ApiKey,
                       !.world = s.worldId, !.actor = s.actorName,
                       !.meta = IF s.actorName # None
                                THEN s.actorMetadata[s.actorName] ELSE None]

HandshakeSendError == "Failed to send HANDSHAKE message: WebSocket is not connected"

onOpen(s, t) ==
    LET s1 == [s EXCEPT !.connected = TRUE, !.transports[t].readyState = OPEN]
        r == sendMessage(s1, HandshakeFrame(s1))
    IN  IF r.st = "sent" THEN r.s
        ELSE LET s2 == RejectConnection(r.s, HandshakeSendError)
             IN  IF s2.ws # 0 /\ s2.transports[s2.ws].readyState # CLOSED
                 THEN [s2 EXCEPT !.transports[s2.ws].readyState = CLOSING]
                 ELSE s2

\* ws.on('error')
ConnectionFailedError(s) ==
    IF s.worldId # None THEN "Connection Failed: Unable to connect to world"
    ELSE "Connection Failed: Unable to establish initial WebSocket connection"

\* (mutant) an error after the connection was made tears the session down
onErrorTearsDown(s) ==
    IF ~s.connected THEN RejectConnection(s, ConnectionFailedError(s))
    ELSE [s EXCEPT !.connected = FALSE, !.authenticated = FALSE,
                   !.connectionPromise = 0,
                   !.pendingRequests = [id \in RequestIds |-> 0]]

onError(s) ==
    IF ~s.connected THEN RejectConnection(s, ConnectionFailedError(s)) ELSE s

\* ws.on('close')
ConnectionLostError ==
    "Connection Lost: The connection to the Vitrus server was lost unexpectedly."
ClosedBeforeConnectError ==
    "Connection Attempt Failed: WebSocket closed before connection could be established."

\* for (const [requestId, { reject }] of this.pendingRequests.entries())
RECURSIVE RejectAllPending(_, _)
RejectAllPending(s, ids) ==
    IF ids = {} THEN s
    ELSE LET id == CHOOSE i \in ids : \A j \in ids : i <= j
             s1 == SettleCall(s, s.pendingRequests[id], "rejected",
                              ConnectionLostError, 0)
         IN  RejectAllPending([s1 EXCEPT !.pendingRequests[id] = 0], ids \ {id})

\* (mutant) the close handler leaves connectionPromise as it is
onCloseKeepsPromise(s, t) ==
    LET wasConnected == s.connected
        s1 == [s EXCEPT !.connected = FALSE, !.authenticated = FALSE,
                        !.transports[t].readyState = CLOSED]
    IN  IF ~wasConnected
        THEN RejectConnection(s1, ClosedBeforeConnectError)
        ELSE RejectAllPending(s1, {id \in RequestIds : s1.pendingRequests[id] # 0})

\* (mutant) the close handler resets connected and leaves authenticated
onCloseKeepsAuthenticated(s, t) ==
    LET wasConnected == s.connected
        s1 == [s EXCEPT !.connected = FALSE,
                        !.transports[t].readyState = CLOSED]
        s2 == IF ~wasConnected
              THEN RejectConnection(s1, ClosedBeforeConnectError)
              ELSE RejectAllPending(s1, {id \in RequestIds : s1.pendingRequests[id] # 0})
    IN  [s2 EXCEPT !.connectionPromise = 0]

onClose(s, t) ==
    LET wasConnected == s.connected
        s1 == [s EXCEPT !.connected = FALSE, !.authenticated = FALSE,
                        !.transports[t].readyState = CLOSED]
        s2 == IF ~wasConnected
              THEN RejectConnection(s1, ClosedBeforeConnectError)
              ELSE RejectAllPending(s1, {id \in RequestIds : s1.pendingRequests[id] # 0})
    IN  [s2 EXCEPT !.connectionPromise = 0]

\* The listing of src/README.md: waitForAuthentication also attaches
\* handleAuthError and handleAuthClose, which run after the handlers above
\* while the session is not authenticated, reject the promise of the
\* handshake and detach the listeners of waitForAuthentication.
AuthWaitError == "WebSocket error during authentication"

onErrorListing(s, t) ==
    LET s1 == onError(s)
    IN  IF s1.transports[t].authListener /\ ~s1.authenticated
        THEN [SettlePromise(s1, t, "rejected", AuthWaitError)
                 EXCEPT !.transports[t].authListener = FALSE]
        ELSE s1

\* The messages of the listing's close handlers carry the close code (and
\* the reason, empty for these codes).
ConnectionLostListingError(code) ==
    IF code = 1005
    THEN "Connection Lost: The connection to the Vitrus server was lost. Code: 1005, Reason: "
    ELSE "Connection Lost: The connection to the Vitrus server was lost. Code: 1006, Reason: "
ClosedBeforeConnectListingError(code) ==
    IF code = 1005
    THEN "Connection Attempt Failed: WebSocket closed before connection could be established. Code: 1005, Reason: "
    ELSE "Connection Attempt Failed: WebSocket closed before connection could be established. Code: 1006, Reason: "
AuthWaitClosedError(code) ==
    IF code = 1005
    THEN "WebSocket closed during authentication. Code: 1005, Reason: "
    ELSE "WebSocket closed during authentication. Code: 1006, Reason: "

RECURSIVE RejectAllPendingWith(_, _, _)
RejectAllPendingWith(s, ids, reason) ==
    IF ids = {} THEN s
    ELSE LET id == CHOOSE i \in ids : \A j \in ids : i <= j
             s1 == SettleCall(s, s.pendingRequests[id], "rejected", reason, 0)
         IN  RejectAllPendingWith([s1 EXCEPT !.pendingRequests[id] = 0],
                                  ids \ {id}, reason)

onCloseListing(s, t, code) ==
    LET wasConnected == s.connected
        s1 == [s EXCEPT !.connected = FALSE, !.authenticated = FALSE,
                        !.transports[t].readyState = CLOSED]
        s2 == IF ~wasConnected
              THEN RejectConnection(s1, ClosedBeforeConnectListingError(code))
              ELSE RejectAllPendingWith(s1,
                       {id \in RequestIds : s1.pendingRequests[id] # 0},
                       ConnectionLostListingError(code))
        s3 == [s2 EXCEPT !.connectionPromise = 0]
    IN  IF s3.transports[t].authListener
        THEN [SettlePromise(s3, t, "rejected", AuthWaitClosedError(code))
                 EXCEPT !.transports[t].authListener = FALSE]
        ELSE s3

\* ---------------------------------------------------------- inbound frames
BlankInbound ==
    [ type |-> None, success |-> FALSE, clientId |-> "", error_code |-> None,
      message |-> None, actorInfo |-> FALSE, registeredCommands |-> << >>,
      target |-> None, cmd |-> None, rid |-> 0, src |-> None,
      result |-> Undef, error |-> Undef,
      json |-> TRUE,            \* the data parses as JSON (to an object)
      cmdsIterable |-> TRUE,    \* actorInfo.registeredCommands is an array
      argsIterable |-> TRUE ]   \* `args` of a COMMAND is an array

ServerMetadata == "srvmeta"

\* Map.set on one actor's signature map: a new key goes last, an existing key
\* keeps its place.
SetSignature(sigs, a, c, types) ==
    [sigs EXCEPT ![a] = [order |-> IF \E i \in 1..Len(@.order) : @.order[i] = c
                                   THEN @.order ELSE Append(@.order, c),
                         types |-> [@.types EXCEPT ![c] = types]]]

RECURSIVE RestoreSignatures(_, _, _)
RestoreSignatures(sigs, a, cmds) ==
    IF cmds = << >> THEN sigs
    ELSE RestoreSignatures(SetSignature(sigs, a, Head(cmds), ServerSignature),
                           a, Tail(cmds))

\* `for (const cmd of response.actorInfo.registeredCommands)` throws a
\* TypeError when the field is not iterable: the statements before it have
\* run, those after it have not.
HandshakeThrows(s, m) ==
    m.success /\ m.actorInfo /\ s.actorName # None /\ ~m.cmdsIterable

\* The success branch shared by handleMessage and handleAuthResponse.
StoreHandshake(s, m) ==
    LET s1 == [s EXCEPT !.clientId = m.clientId, !.authenticated = TRUE]
    IN  IF m.actorInfo /\ s1.actorName # None
        THEN [s1 EXCEPT !.actorMetadata[s1.actorName] = ServerMetadata,
                        !.actorCommandSignatures =
                            IF m.cmdsIterable
                            THEN RestoreSignatures(@, s1.actorName,
                                                   m.registeredCommands)
                            ELSE @]
        ELSE s1

\* The reply type the server sends for each kind of request
ReplyTypeFor(kind) ==
    IF kind = "runCommand" THEN "RESPONSE"
    ELSE IF kind = "workflow" THEN "WORKFLOW_RESULT"
    ELSE "WORKFLOW_LIST"

\* (mutant) a reply of another type than the request's rejects the call
SettlePendingRejectsOtherKind(s, m) ==
    LET p == s.pendingRequests[m.rid]
    IN  IF m.rid \in RequestIds /\ p # 0
        THEN LET s1 == IF Truthy(m.error)
                          \/ m.type # ReplyTypeFor(s.calls[p].kind)
                       THEN SettleCall(s, p, "rejected", m.error, m.rid)
                       ELSE SettleCall(s, p, "resolved",
                                       IF m.type = "WORKFLOW_LIST" /\ ~Truthy(m.result)
                                       THEN "[]" ELSE m.result,
                                       m.rid)
             IN  [s1 EXCEPT !.pendingRequests[m.rid] = 0]
        ELSE s

\* (mutant) a reply whose id is not pending settles the oldest pending entry
SettlePendingOrOldest(s, m) ==
    LET ids == {id \in RequestIds : s.pendingRequests[id] # 0}
        id == IF m.rid \in ids \/ ids = {} THEN m.rid
              ELSE CHOOSE i \in ids : \A j \in ids : i <= j
        p == s.pendingRequests[id]
    IN  IF id \in RequestIds /\ p # 0
        THEN LET s1 == IF Truthy(m.error)
                       THEN SettleCall(s, p, "rejected", m.error, id)
                       ELSE SettleCall(s, p, "resolved",
                                       IF m.type = "WORKFLOW_LIST" /\ ~Truthy(m.result)
                                       THEN "[]" ELSE m.result,
                                       id)
             IN  [s1 EXCEPT !.pendingRequests[id] = 0]
        ELSE s

\* handleMessage, type RESPONSE / WORKFLOW_RESULT / WORKFLOW_LIST
SettlePending(s, m) ==
    LET p == s.pendingRequests[m.rid]
    IN  IF m.rid \in RequestIds /\ p # 0
        THEN LET s1 == IF Truthy(m.error)
                       THEN SettleCall(s, p, "rejected", m.error, m.rid)
                       ELSE SettleCall(s, p, "resolved",
                                       IF m.type = "WORKFLOW_LIST" /\ ~Truthy(m.result)
                                       THEN "[]" ELSE m.result,
                                       m.rid)
             IN  [s1 EXCEPT !.pendingRequests[m.rid] = 0]
        ELSE s

\* (mutant) a command without a handler is answered with an error RESPONSE
handleCommandAnswersUnknown(s, m, t) ==
    LET h == s.actorCommandHandlers[m.target][m.cmd]
    IN  IF h # None
        THEN [s EXCEPT !.tasks = Append(@, [st |-> IF m.argsIterable THEN "running"
                                                   ELSE "spreading",
                                            actor |-> m.target,
                                            cmd |-> m.cmd, rid |-> m.rid,
                                            src |-> m.src, t |-> t, h |-> h,
                                            oc |-> None, joined |-> 0,
                                            frame |-> BlankFrame])]
        ELSE sendNow(s, [BlankFrame EXCEPT !.type = "RESPONSE", !.rid = m.rid,
                                           !.error = "unknown command"]).s

\* handleCommand: the handler found for the frame runs as its own task, in
\* the callback `() => handler(...args)` of a promise chain. When `args` is
\* not iterable the spread throws there before the handler is called
\* ("spreading"), and the .catch callback of the chain answers.
handleCommand(s, m, t) ==
    LET h == s.actorCommandHandlers[m.target][m.cmd]
    IN  IF h # None
        THEN [s EXCEPT !.tasks = Append(@, [st |-> IF m.argsIterable THEN "running"
                                                   ELSE "spreading",
                                            actor |-> m.target,
                                            cmd |-> m.cmd, rid |-> m.rid,
                                            src |-> m.src, t |-> t, h |-> h,
                                            oc |-> None, joined |-> 0,
                                            frame |-> BlankFrame])]
        ELSE s

handleMessage(s, m, t) ==
    IF m.type = "HANDSHAKE_RESPONSE"
    THEN IF m.success THEN StoreHandshake(s, m) ELSE s
    ELSE IF m.type = "COMMAND" THEN handleCommand(s, m, t)
    ELSE IF m.type \in {"RESPONSE", "WORKFLOW_RESULT", "WORKFLOW_LIST"}
    THEN SettlePending(s, m)
    ELSE s

\* waitForAuthentication, failure branch: the message of the rejection.
InvalidApiKeyError == "Authentication Failed: The provided API Key is invalid or expired."
GenericAuthError == "Authentication failed"
WorldNotFoundError == "Connection Failed: The world specified in the connection URL was not found."
WorldNotFoundHandshakeError == "Connection Failed: The world specified in the handshake message was not found."
ActorNeedsWorldError == "Connection Failed: An actor connection requires a valid World ID to be specified."

\* (mutant) the server's message, when there is one, wins over the error code
AuthErrorMessagePrefersServer(m) ==
    IF Truthy(m.message) THEN m.message
    ELSE IF m.error_code = "invalid_api_key" THEN InvalidApiKeyError
    ELSE IF m.error_code = "world_not_found" THEN WorldNotFoundError
    ELSE GenericAuthError

\* errorMessage.includes('Actors require a worldId')
MentionsActorsRequireWorldId(msg) ==
    msg \in {"Actors require a worldId",
             "Error: Actors require a worldId to connect"}

AuthErrorMessage(m) ==
    LET errorMessage == IF Truthy(m.message) THEN m.message ELSE GenericAuthError
    IN  IF m.error_code = "invalid_api_key" THEN InvalidApiKeyError
        ELSE IF m.error_code = "world_not_found"
        THEN (IF Truthy(m.message) THEN m.message ELSE WorldNotFoundError)
        ELSE IF m.error_code = "world_not_found_handshake"
        THEN (IF Truthy(m.message) THEN m.message ELSE WorldNotFoundHandshakeError)
        ELSE IF MentionsActorsRequireWorldId(errorMessage) THEN ActorNeedsWorldError
        ELSE errorMessage

\* waitForAuthentication's message listener on transport t (attached while
\* transports[t].authListener): it settles the promise connect() made for t.
handleAuthResponse(s, m, t) ==
    IF m.type # "HANDSHAKE_RESPONSE" THEN s
    ELSE IF HandshakeThrows(s, m) THEN StoreHandshake(s, m)
    ELSE IF m.success
    THEN LET s1 == StoreHandshake(s, m)
             s2 == [s1 EXCEPT !.transports[t].authListener = FALSE,
                              !.transports[t].acked = TRUE]
         IN  SettlePromise(s2, t, "resolved", None)
    ELSE LET s1 == [s EXCEPT !.transports[t].authListener = FALSE]
         IN  SettlePromise(s1, t, "rejected", AuthErrorMessage(m))

\* ws.on('message'): the generic listener first, then the authentication
\* listener when it is still attached. Each wraps JSON.parse and its handler
\* in try/catch: data that does not parse reaches neither handler.
onMessage(s, m, t) ==
    LET s1 == handleMessage(s, m, t)
    IN  IF ~m.json THEN s
        ELSE IF s1.transports[t].authListener THEN handleAuthResponse(s1, m, t)
        ELSE s1

\* ------------------------------------------------------------- API calls
NewCall(kind, name, opts, cmd) ==
    [ kind |-> kind, pc |-> "start", name |-> name, opts |-> opts, cmd |-> cmd,
      joined |-> 0, joinedAs |-> None, rid |-> 0, out |-> None, val |-> None,
      by |-> 0, frame |-> BlankFrame, idx |-> 0 ]

RequestKinds == {"runCommand", "workflow", "list_workflows"}
AuthenticateNeedsWorldError ==
    "Vitrus SDK requires a worldId to authenticate as an actor."
ActorNeedsWorldIdError ==
    "Vitrus SDK requires a worldId to create/authenticate as an actor."
RunCommandNeedsWorldError ==
    "Vitrus SDK requires a worldId to run commands on actors."

\* `await this.connect(...)`: call p waits for the promise connect() returned.
\* joinedAs records whether connect() made that promise ("new") or returned
\* the stored one, and in which state the stored one was.
AwaitConnect(before, after, p, pc) ==
    [after EXCEPT !.calls[p].pc = pc,
                  !.calls[p].joined = after.connectionPromise,
                  !.calls[p].joinedAs =
                      IF before.connectionPromise = 0 THEN "new"
                      ELSE before.promises[before.connectionPromise].state]

\* (mutant) the identity is stored before the worldId is looked at
authenticateStoresIdentityFirst(s, p, an, md) ==
    LET s1 == [s EXCEPT !.actorName = an,
                        !.actorMetadata = IF an # None /\ Truthy(md)
                                          THEN [@ EXCEPT ![an] = md] ELSE @]
    IN  IF an # None /\ s.worldId = None
        THEN SettleCall(s1, p, "rejected", AuthenticateNeedsWorldError, 0)
        ELSE AwaitConnect(s1, connect(s1, an, md), p, "await_connect")

\* authenticate(actorName?, metadata?) up to its await of connect().
authenticate(s, p, an, md) ==
    IF an # None /\ s.worldId = None
    THEN SettleCall(s, p, "rejected", AuthenticateNeedsWorldError, 0)
    ELSE LET s1 == [s EXCEPT !.actorName = an,
                             !.actorMetadata = IF an # None /\ Truthy(md)
                                               THEN [@ EXCEPT ![an] = md] ELSE @]
         IN  AwaitConnect(s1, connect(s1, an, md), p, "await_connect")

\* generateRequestId: Math.random().toString(36).substring(2, 15); any value
\* of the id space can come out, whatever the pending table holds. A
\* behaviour draws from as many ids as it makes calls (NumRequestIds at most):
\* every call can get an id of its own, and any two can get the same.
IdSpace(sc) ==
    1..(IF sc.calls < NumRequestIds THEN sc.calls ELSE NumRequestIds)

generateRequestId(s) == IdSpace(s.scope)

RequestFrame(c, rid) ==
    IF c.kind = "runCommand"
    THEN [BlankFrame EXCEPT !.type = "COMMAND", !.actor = c.name, !.cmd = c.cmd,
                            !.rid = rid]
    ELSE IF c.kind = "workflow"
    THEN [BlankFrame EXCEPT !.type = "WORKFLOW", !.cmd = c.cmd, !.rid = rid]
    ELSE [BlankFrame EXCEPT !.type = "LIST_WORKFLOWS", !.rid = rid]

\* sendMessage(...).catch(error => { pendingRequests.delete(requestId); reject(error) })
SendFailed(s, p, reason) ==
    SettleCall([s EXCEPT !.pendingRequests[s.calls[p].rid] = 0],
               p, "rejected", reason, 0)

\* The promise of sendMessage is rejected with `reason`: the .catch callback
\* of the request runs as a continuation (val keeps the reason until then).
SendThrew(s, p, reason) ==
    [s EXCEPT !.calls[p].pc = "send_failed", !.calls[p].val = reason]

\* runCommand / workflow / list_workflows after authentication: the entry in
\* the pending table under the generated id, then the frame.
IssueRequest(s, p, rid) ==
    LET s1 == [s EXCEPT !.pendingRequests[rid] = p, !.calls[p].rid = rid]
        frame == RequestFrame(s1.calls[p], rid)
        r == sendMessage(s1, frame)
    IN  IF r.st = "sent" THEN [r.s EXCEPT !.calls[p].pc = "pending"]
        ELSE IF r.st = "threw" THEN SendThrew(r.s, p, NotConnectedError)
        ELSE [AwaitConnect(s1, r.s, p, "await_send") EXCEPT !.calls[p].frame = frame]

\* Actor.on: whether the registration is announced to the server right away.
AnnouncesNow(s, name) == s.authenticated /\ s.actorName = name

RegisterCommandFrame(s, name, c) ==
    [BlankFrame EXCEPT !.type = "REGISTER_COMMAND", !.actor = name, !.cmd = c,
                       !.sig = s.actorCommandSignatures[name].types[c]]

\* (mutant) a handler already registered for the command is kept
registerActorCommandHandlerKeepsFirst(s, name, c, h, types) ==
    [s EXCEPT !.actorCommandHandlers[name][c] = IF @ # None THEN @ ELSE h,
              !.actorCommandSignatures = SetSignature(@, name, c, types)]

\* registerActorCommandHandler
registerActorCommandHandler(s, name, c, h, types) ==
    [s EXCEPT !.actorCommandHandlers[name][c] = h,
              !.actorCommandSignatures = SetSignature(@, name, c, types)]

\* registerCommand(actorName, commandName, parameterTypes) up to the await in
\* sendMessage: the REGISTER_COMMAND frame with the types it was given.
registerCommand(s, p, name, c, types) ==
    LET frame == [BlankFrame EXCEPT !.type = "REGISTER_COMMAND", !.actor = name,
                                    !.cmd = c, !.sig = types]
        r == sendMessage(s, frame)
    IN  IF r.st = "sent" THEN SettleCall(r.s, p, "resolved", "void", 0)
        ELSE IF r.st = "threw"
        THEN SettleCall(r.s, p, "rejected", NotConnectedError, 0)
        ELSE [AwaitConnect(s, r.s, p, "await_send") EXCEPT !.calls[p].frame = frame]

\* Actor.on(commandName, handler)
ActorOnCommand(s, name, c, h) ==
    LET s1 == registerActorCommandHandler(s, name, c, h, getParameterTypes(h))
    IN  IF AnnouncesNow(s1, name)
        THEN sendMessage(s1, RegisterCommandFrame(s1, name, c)).s
        ELSE s1

\* (mutant) the actor name is not compared
disconnectIfAuthenticated(s, name) ==
    IF s.authenticated /\ s.ws # 0 /\ s.transports[s.ws].readyState = OPEN
    THEN [s EXCEPT !.transports[s.ws].readyState = CLOSING]
    ELSE s

\* disconnectIfActor(actorName), reached from Actor.disconnect(): ws.close()
\* starts the closing handshake; the close handler runs on the 'close' event.
disconnectIfActor(s, name) ==
    IF /\ s.actorName = name
       /\ s.authenticated
       /\ s.ws # 0
       /\ s.transports[s.ws].readyState = OPEN
    THEN [s EXCEPT !.transports[s.ws].readyState = CLOSING]
    ELSE s

\* authenticated is set by a frame received on an open transport and cleared,
\* with connected, by the close handler: registerCommand in Actor.on never
\* takes sendMessage's await of connect().
AuthenticatedIsConnected == authenticated => connected

\* registerPendingCommands(actorName): the commands it visits, in the
\* insertion order of the signature map; one is announced when it has a handler.
PendingCommandOrder(s, name) == s.actorCommandSignatures[name].order

HasHandler(s, name, c) == s.actorCommandHandlers[name][c] # None

\* One iteration of the loop of registerPendingCommands for call p, or its end
\* (actor() returns the Actor object).
registerPendingCommands(s, p) ==
    LET c == s.calls[p]
        order == PendingCommandOrder(s, c.name)
    IN  IF c.idx > Len(order)
        THEN [SettleCall(s, p, "resolved", "actor", 0)
                 EXCEPT !.handles = @ \cup {c.name}]
        ELSE LET cmd == order[c.idx]
                 s1 == [s EXCEPT !.calls[p].idx = @ + 1]
             IN  IF ~HasHandler(s, c.name, cmd) THEN s1
                 ELSE LET frame == RegisterCommandFrame(s1, c.name, cmd)
                          r == sendMessage(s1, frame)
                      IN  IF r.st \in {"sent", "threw"} THEN r.s
                          ELSE [AwaitConnect(s1, r.s, p, "await_send")
                                   EXCEPT !.calls[p].frame = frame]

\* The continuation of a call whose awaited connection promise has settled.
ResumeAfterConnect(s, p, rid) ==
    LET c == s.calls[p]
        pr == s.promises[c.joined]
    IN  IF pr.state = "rejected" THEN SettleCall(s, p, "rejected", pr.reason, 0)
        ELSE IF c.kind = "connect" THEN SettleCall(s, p, "resolved", "void", 0)
        ELSE IF c.kind = "authenticate"
        THEN SettleCall(s, p, "resolved",
                        IF s.authenticated THEN "true" ELSE "false", 0)
        ELSE IF c.kind = "actor"
        THEN [s EXCEPT !.calls[p].pc = "replay", !.calls[p].idx = 1]
        ELSE IssueRequest(s, p, rid)

\* The continuation of sendMessage after its own await of connect().
ResumeSend(s, p) ==
    LET c == s.calls[p]
        pr == s.promises[c.joined]
        r == sendNow(s, c.frame)
    IN  IF c.kind = "actor"
        THEN [(IF pr.state = "resolved" THEN r.s ELSE s) EXCEPT !.calls[p].pc = "replay"]
        ELSE IF c.kind = "registerCommand"
        THEN (IF pr.state = "rejected"
              THEN SettleCall(s, p, "rejected", pr.reason, 0)
              ELSE IF r.st = "sent" THEN SettleCall(r.s, p, "resolved", "void", 0)
              ELSE SettleCall(s, p, "rejected", NotConnectedError, 0))
        ELSE IF pr.state = "rejected" THEN SendThrew(s, p, pr.reason)
        ELSE IF r.st = "sent" THEN [r.s EXCEPT !.calls[p].pc = "pending"]
        ELSE SendThrew(s, p, NotConnectedError)

\* ------------------------------------------------------ command handlers
\* What the handler of an inbound COMMAND does: it returns a value, or throws
\* (or rejects with) an Error with a message, an Error with an empty message,
\* a value that has no `message`, or null/undefined. A task whose handler was
\* never called, because spreading `args` threw a TypeError, has the outcome
\* "spreadThrows".
HandlerOutcomes ==
    {"returns", "throwsError", "throwsEmptyError", "throwsNoMessage", "throwsNull"}

\* The RESPONSE built in the .then / .catch callbacks of handleCommand.
ResponseFrame(task, oc) ==
    [BlankFrame EXCEPT !.type = "RESPONSE",
                       !.chan = IF task.src # None THEN task.src ELSE "",
                       !.rid = task.rid,
                       !.result = IF oc = "returns" THEN HandlerResult ELSE Undef,
                       !.error = IF oc = "throwsError" THEN HandlerErrorMessage
                                 ELSE IF oc = "throwsEmptyError" THEN ""
                                 ELSE IF oc = "spreadThrows" THEN ArgsNotIterableError
                                 ELSE Undef]

\* Reading `error.message` of null or undefined throws inside the .catch
\* callback, before sendResponse is reached.
CatchCallbackThrows(oc) == oc = "throwsNull"

\* sendResponse(response): sendMessage, its promise left unobserved.
sendResponse(s, k, frame) ==
    LET r == sendMessage(s, frame)
    IN  IF r.st \in {"sent", "threw"} THEN [r.s EXCEPT !.tasks[k].st = "done"]
        ELSE [r.s EXCEPT !.tasks[k].st = "await_connect",
                         !.tasks[k].joined = r.s.connectionPromise,
                         !.tasks[k].frame = frame]

\* (mutant) the RESPONSE is withheld while an earlier handler is running
handlerSettledBehindEarlier(s, k, oc) ==
    LET s1 == [s EXCEPT !.tasks[k].oc = oc]
    IN  IF CatchCallbackThrows(oc) \/ \E j \in 1..(k - 1) : s.tasks[j].st = "running"
        THEN [s1 EXCEPT !.tasks[k].st = "done"]
        ELSE sendResponse(s1, k, ResponseFrame(s1.tasks[k], oc))

\* The handler of task k settles with outcome oc.
handlerSettled(s, k, oc) ==
    LET s1 == [s EXCEPT !.tasks[k].oc = oc]
    IN  IF CatchCallbackThrows(oc) THEN [s1 EXCEPT !.tasks[k].st = "done"]
        ELSE sendResponse(s1, k, ResponseFrame(s1.tasks[k], oc))

\* sendMessage of a RESPONSE continues after its await of connect().
ResumeResponse(s, k) ==
    LET task == s.tasks[k]
        s1 == [s EXCEPT !.tasks[k].st = "done"]
    IN  IF s.promises[task.joined].state = "rejected" THEN s1
        ELSE sendNow(s1, task.frame).s

\* ------------------------------------------------------------ scheduling
SettledIn(s, n) == n # 0 /\ s.promises[n].state # "pending"

RunnableCallIn(s, p) ==
    \/ s.calls[p].pc \in {"replay", "send_failed"}
    \/ /\ s.calls[p].pc \in {"await_connect", "await_send"}
       /\ SettledIn(s, s.calls[p].joined)

RunnableTaskIn(s, k) ==
    \/ s.tasks[k].st = "spreading"
    \/ s.tasks[k].st = "await_connect" /\ SettledIn(s, s.tasks[k].joined)

\* No continuation is runnable in s: the microtask queue is empty.
QuiescentIn(s) ==
    /\ \A p \in 1..Len(s.calls) : ~RunnableCallIn(s, p)
    /\ \A k \in 1..Len(s.tasks) : ~RunnableTaskIn(s, k)

Quiescent == QuiescentIn(Cur)

\* The end of a 'message' event of transport t: the events of one read of
\* its socket are emitted one after the other, before the continuations they
\* make runnable.
Deliver(s, t) ==
    /\ delivering >= 0
    /\ Assign(s)
    /\ delivering' = IF QuiescentIn(s) THEN 0 ELSE t

\* ------------------------------------------------------------------ Init
Scope(nTransports, nCalls, nTasks, nSent) ==
    [transports |-> nTransports, calls |-> nCalls, tasks |-> nTasks, sent |-> nSent,
     listing |-> FALSE]

\* The same bounds for the class as listed in src/README.md
Listing(sc) == [sc EXCEPT !.listing = TRUE]

Start(sc) ==
    /\ scope = sc
    /\ worldId \in {None, "w1"}
    /\ ws = 0
    /\ connected = FALSE
    /\ authenticated = FALSE
    /\ clientId = ""
    /\ actorName = None
    /\ connectionPromise = 0
    /\ connectionReject = 0
    /\ pendingRequests = [id \in RequestIds |-> 0]
    /\ actorCommandHandlers = [a \in Actors |-> [c \in Commands |-> None]]
    /\ actorCommandSignatures =
           [a \in Actors |-> [order |-> << >>, types |-> [c \in Commands |-> << >>]]]
    /\ actorMetadata = [a \in Actors |-> None]
    /\ transports = << >>
    /\ promises = << >>
    /\ sent = << >>
    /\ calls = << >>
    /\ tasks = << >>
    /\ handles = {}
    /\ delivering = 0

\* The session of an application that has set a worldId
StartInWorld(sc) == Start(sc) /\ worldId # None

Init ==
    \/ Start(Scope(MaxTransports, MaxCalls, MaxTasks, MaxSent))
    \/ Start(Listing(Scope(MaxTransports, MaxCalls, MaxTasks, MaxSent)))

\* --------------------------------------------------------------- actions
Begin(kind, name, opts, cmd) ==
    [Cur EXCEPT !.calls = Append(@, NewCall(kind, name, opts, cmd))]

\* connect(actorName?, metadata?) called directly
CallConnect(an, md) ==
    LET s == Begin("connect", an, md, None)
        p == Len(s.calls)
    IN  /\ Commit(AwaitConnect(s, connect(s, an, md), p, "await_connect"))

\* authenticate(actorName?, metadata?) called directly
CallAuthenticate(an, md) ==
    LET s == Begin("authenticate", an, md, None)
    IN  /\ Commit(authenticate(s, Len(s.calls), an, md))

\* (mutant) actor(name) authenticates as the actor even without options
CallActorAlwaysAuthenticates(name, opts) ==
    LET s == Begin("actor", name, opts, None)
        p == Len(s.calls)
    IN  IF s.worldId = None
        THEN Commit(SettleCall(s, p, "rejected", ActorNeedsWorldIdError, 0))
        ELSE IF ~s.authenticated \/ s.actorName # name
        THEN Commit(authenticate(s, p, name, opts))
        ELSE Commit([SettleCall(s, p, "resolved", "actor", 0)
                        EXCEPT !.handles = @ \cup {name}])

\* actor(name, options?): every test of the options is `options !== undefined`,
\* which null passes.
CallActor(name, opts) ==
    LET s == Begin("actor", name, opts, None)
        p == Len(s.calls)
    IN  IF opts # None /\ s.worldId = None
        THEN Commit(SettleCall(s, p, "rejected", ActorNeedsWorldIdError, 0))
        ELSE LET s1 == IF opts # None
                       THEN [s EXCEPT !.actorMetadata[name] = opts] ELSE s
             IN  IF opts # None /\ (~s1.authenticated \/ s1.actorName # name)
                 THEN Commit(authenticate(s1, p, name, opts))
                 ELSE Commit([SettleCall(s1, p, "resolved", "actor", 0)
                                 EXCEPT !.handles = @ \cup {name}])

\* runCommand(actorName, commandName, args), workflow(name, args), list_workflows()
CallRequest(kind, name, cmd) ==
    LET s == Begin(kind, name, None, cmd)
        p == Len(s.calls)
    IN  IF kind = "runCommand" /\ s.worldId = None
        THEN Commit(SettleCall(s, p, "rejected", RunCommandNeedsWorldError, 0))
        ELSE IF ~s.authenticated
        THEN Commit(authenticate(s, p, None, None))
        ELSE \E rid \in generateRequestId(s) : Commit(IssueRequest(s, p, rid))

\* Actor.on(commandName, handler) on an Actor object the program holds
ActorOn(name, c, h) ==
    /\ name \in handles
    /\ Commit(ActorOnCommand(Cur, name, c, h))

\* registerActorCommandHandler(actorName, commandName, handler, parameterTypes)
\* called directly: no Actor object is needed and nothing is announced.
CallRegisterActorCommandHandler(name, c, h, types) ==
    /\ Commit(registerActorCommandHandler(Cur, name, c, h, types))

\* registerCommand(actorName, commandName, parameterTypes) called directly
CallRegisterCommand(name, c, types) ==
    LET s == Begin("registerCommand", name, None, c)
    IN  /\ Commit(registerCommand(s, Len(s.calls), name, c, types))

\* Actor.disconnect() / disconnectIfActor(name), of the listing
DisconnectIfActor(name) ==
    /\ scope.listing
    /\ name \in Actors
    /\ Commit(disconnectIfActor(Cur, name))

\* The continuation of an await in call p
ResumeCall(p) ==
    /\ p \in 1..Len(calls)
    /\ RunnableCallIn(Cur, p)
    /\ IF calls[p].pc = "replay" THEN Commit(registerPendingCommands(Cur, p))
       ELSE IF calls[p].pc = "send_failed" THEN Commit(SendFailed(Cur, p, calls[p].val))
       ELSE IF calls[p].pc = "await_send" THEN Commit(ResumeSend(Cur, p))
       ELSE \E rid \in generateRequestId(Cur) : Commit(ResumeAfterConnect(Cur, p, rid))

\* The handler of an inbound COMMAND completes
HandlerCompletes(k, oc) ==
    /\ k \in 1..Len(tasks)
    /\ tasks[k].st = "running"
    /\ Commit(handlerSettled(Cur, k, oc))

\* The continuation of the promise chain of task k: the rejection of the
\* spread reaches the .catch callback, or sendMessage goes on after its await.
ResumeTask(k) ==
    /\ k \in 1..Len(tasks)
    /\ RunnableTaskIn(Cur, k)
    /\ IF tasks[k].st = "spreading" THEN Commit(handlerSettled(Cur, k, "spreadThrows"))
       ELSE Commit(ResumeResponse(Cur, k))

TransportOpen(t) ==
    /\ Quiescent
    /\ t \in 1..Len(transports)
    /\ transports[t].readyState = CONNECTING
    /\ Commit(onOpen(Cur, t))

\* A 'message' event of transport t can be emitted: the WebSocket is open, or
\* closing because this side called close() and the peer has not answered;
\* no continuation is runnable, or the event before it was a 'message' of
\* the same transport.
Receives(t) ==
    /\ t \in 1..Len(transports)
    /\ transports[t].readyState \in {OPEN, CLOSING}
    /\ transports[t].receiving
    /\ delivering = t \/ (delivering = 0 /\ Quiescent)

ReceiveHandshakeResponse(t, m) ==
    /\ Receives(t)
    /\ Deliver(onMessage(Cur, m, t), t)

ReceiveCommand(t, m) ==
    /\ Receives(t)
    /\ Deliver(onMessage(Cur, m, t), t)

\* A reply frame arrives; its requestId is one of the id space in use.
ReceiveReply(t, m) ==
    /\ m.rid \in IdSpace(scope)
    /\ Receives(t)
    /\ Deliver(onMessage(Cur, m, t), t)

\* Data that is not a frame of the protocol arrives
ReceiveMalformed(t, m) ==
    /\ Receives(t)
    /\ Deliver(onMessage(Cur, m, t), t)

\* An 'error' event; the WebSocket that raised it is closing and delivers no
\* further frame. An invalid frame read together with the frames before it
\* raises the event right after their 'message' events, before any
\* continuation runs.
\* The 'error' of a WebSocket that has not opened is emitted together with
\* its 'close': nothing runs between the two.
TransportError(t) ==
    /\ delivering = t \/ (delivering = 0 /\ Quiescent)
    /\ t \in 1..Len(transports)
    /\ transports[t].readyState \in {CONNECTING, OPEN}
    /\ Assign([(IF scope.listing THEN onErrorListing(Cur, t) ELSE onError(Cur))
                   EXCEPT !.transports[t].readyState = CLOSING,
                          !.transports[t].receiving = FALSE])
    /\ delivering' = IF transports[t].readyState = CONNECTING THEN -t ELSE 0

\* The peer starts the closing handshake: readyState leaves OPEN before the
\* 'close' event is delivered, and no frame follows the peer's close frame.
\* A close frame read together with the frames before it takes effect right
\* after their 'message' events, before any continuation runs.
TransportClosing(t) ==
    /\ delivering = t \/ (delivering = 0 /\ Quiescent)
    /\ t \in 1..Len(transports)
    /\ transports[t].readyState = OPEN
    /\ Commit([Cur EXCEPT !.transports[t].readyState = CLOSING,
                          !.transports[t].receiving = FALSE])

\* The 'close' event: after the 'error' of a failed connect in the same run,
\* otherwise when no continuation is runnable.
TransportClose(t) ==
    /\ delivering = -t \/ (delivering = 0 /\ Quiescent)
    /\ t \in 1..Len(transports)
    /\ transports[t].readyState # CLOSED
    /\ \E code \in CloseCodes :
           Assign(IF scope.listing THEN onCloseListing(Cur, t, code)
                  ELSE onClose(Cur, t))
    /\ delivering' = 0

HandshakeResponses ==
    { [BlankInbound EXCEPT !.type = "HANDSHAKE_RESPONSE", !.success = TRUE,
                           !.clientId = cid, !.actorInfo = ai,
                           !.registeredCommands = IF ai THEN << "c1" >> ELSE << >>] :
        cid \in HandshakeClientIds, ai \in BOOLEAN }
    \cup
    { [BlankInbound EXCEPT !.type = "HANDSHAKE_RESPONSE", !.success = FALSE,
                           !.error_code = ec, !.message = msg] :
        ec \in ErrorCodes, msg \in ServerMessages }

InboundCommands ==
    { [BlankInbound EXCEPT !.type = "COMMAND", !.target = a, !.cmd = c,
                           !.rid = q, !.src = ch] :
        a \in Actors, c \in Commands, q \in InboundRequestIds, ch \in SourceChannels }

\* COMMAND frames that carry no `args`
CommandsWithoutArgs ==
    { [m EXCEPT !.argsIterable = FALSE] : m \in InboundCommands }

\* A reply to request id carries its result, its error, an empty error
\* string, a null result, or neither field.
ReplyPayloads(id) ==
    { [result |-> ResultFor(id), error |-> Undef],
      [result |-> Undef, error |-> ErrorFor(id)],
      [result |-> Undef, error |-> ""],
      [result |-> Null, error |-> Undef],
      [result |-> Undef, error |-> Undef] }

Replies ==
    UNION { { [BlankInbound EXCEPT !.type = ty, !.rid = id, !.result = pl.result,
                                   !.error = pl.error] :
                ty \in {"RESPONSE", "WORKFLOW_RESULT", "WORKFLOW_LIST"},
                pl \in ReplyPayloads(id) } : id \in RequestIds }

\* Inbound data that is not JSON or violates the frame schema: text that
\* does not parse, an object without a type, a reply without a requestId, a
\* success HANDSHAKE_RESPONSE without clientId, and one whose
\* actorInfo.registeredCommands is not an array.
MalformedFrames ==
    { [BlankInbound EXCEPT !.json = FALSE],
      BlankInbound,
      [BlankInbound EXCEPT !.type = "RESPONSE", !.result = "v1"],
      [BlankInbound EXCEPT !.type = "HANDSHAKE_RESPONSE", !.success = TRUE,
                           !.clientId = Undef],
      [BlankInbound EXCEPT !.type = "HANDSHAKE_RESPONSE", !.success = TRUE,
                           !.clientId = "cid1", !.actorInfo = TRUE,
                           !.cmdsIterable = FALSE] }

\* The options of actor(name, options): left out, null, or an object
ActorOptions == {None, Null, "m1"}

\* The parameterTypes handed to registerCommand / registerActorCommandHandler
ParameterTypeLists == {<< >>, << "string" >>}

\* authenticate() as an agent, or authenticate(actorName, metadata) as an actor
AuthenticateArgs ==
    {[name |-> None, md |-> None]} \cup {[name |-> a, md |-> "m1"] : a \in Actors}

RequestArgs ==
    {[kind |-> "runCommand", name |-> "A", cmd |-> "c1"],
     [kind |-> "workflow", name |-> None, cmd |-> "wf"],
     [kind |-> "list_workflows", name |-> None, cmd |-> None]}

Next ==
    \/ \E an \in {None} \cup Actors, md \in {None, "m1"} : CallConnect(an, md)
    \/ \E a \in AuthenticateArgs : CallAuthenticate(a.name, a.md)
    \/ \E name \in Actors, opts \in ActorOptions : CallActor(name, opts)
    \/ \E a \in RequestArgs : CallRequest(a.kind, a.name, a.cmd)
    \/ \E name \in Actors, c \in Commands, h \in Handlers : ActorOn(name, c, h)
    \/ \E name \in Actors, c \in Commands, h \in Handlers, types \in ParameterTypeLists :
           CallRegisterActorCommandHandler(name, c, h, types)
    \/ \E name \in Actors, c \in Commands, types \in ParameterTypeLists :
           CallRegisterCommand(name, c, types)
    \/ \E name \in Actors : DisconnectIfActor(name)
    \/ \E p \in 1..MaxCalls : ResumeCall(p)
    \/ \E k \in 1..MaxTasks, oc \in HandlerOutcomes : HandlerCompletes(k, oc)
    \/ \E k \in 1..MaxTasks : ResumeTask(k)
    \/ \E t \in 1..MaxTransports : TransportOpen(t)
    \/ \E t \in 1..MaxTransports, m \in HandshakeResponses : ReceiveHandshakeResponse(t, m)
    \/ \E t \in 1..MaxTransports, m \in InboundCommands \cup CommandsWithoutArgs :
           ReceiveCommand(t, m)
    \/ \E t \in 1..MaxTransports, m \in Replies : ReceiveReply(t, m)
    \/ \E t \in 1..MaxTransports, m \in MalformedFrames : ReceiveMalformed(t, m)
    \/ \E t \in 1..MaxTransports : TransportError(t)
    \/ \E t \in 1..MaxTransports : TransportClosing(t)
    \/ \E t \in 1..MaxTransports : TransportClose(t)

Spec == Init /\ [][Next]_vars

\* ------------------------------------------------- focused specifications
\* The same program with the operations that a group of properties is about.

\* The answers to the handshake of an agent: success, or an invalid API key.
AgentHandshakeResponses ==
    { m \in HandshakeResponses :
        IF m.success THEN ~m.actorInfo
        ELSE m.error_code = "invalid_api_key" /\ m.message = None }

\* Requests and their correlation: runCommand / workflow / list_workflows,
\* the handshake, reply frames, loss of the connection.
NextRequests ==
    \/ \E a \in RequestArgs : CallRequest(a.kind, a.name, a.cmd)
    \/ \E p \in 1..MaxCalls : ResumeCall(p)
    \/ \E t \in 1..MaxTransports : TransportOpen(t)
    \/ \E t \in 1..MaxTransports, m \in AgentHandshakeResponses :
           ReceiveHandshakeResponse(t, m)
    \/ \E t \in 1..MaxTransports, m \in Replies : ReceiveReply(t, m)
    \/ \E t \in 1..MaxTransports : TransportError(t)
    \/ \E t \in 1..MaxTransports : TransportClosing(t)
    \/ \E t \in 1..MaxTransports : TransportClose(t)

RequestsTransports == 1
RequestsCalls == 2
RequestsSent == 3

SpecRequests ==
    /\ Start(Scope(RequestsTransports, RequestsCalls, 0, RequestsSent))
    /\ [][NextRequests]_vars

\* Connection lifecycle: connect / authenticate / actor(name, options) and a
\* request, the handshake and its answers, errors and closures of transports.
ConnectAuthenticateArgs ==
    {[name |-> None, md |-> None], [name |-> "A", md |-> "m1"]}

NextConnect ==
    \/ \E a \in ConnectAuthenticateArgs : CallConnect(a.name, a.md)
    \/ \E a \in ConnectAuthenticateArgs : CallAuthenticate(a.name, a.md)
    \/ \E name \in Actors : CallActor(name, "m1")
    \/ \E a \in RequestArgs : CallRequest(a.kind, a.name, a.cmd)
    \/ \E p \in 1..MaxCalls : ResumeCall(p)
    \/ \E t \in 1..MaxTransports : TransportOpen(t)
    \/ \E t \in 1..MaxTransports, m \in AgentHandshakeResponses :
           ReceiveHandshakeResponse(t, m)
    \/ \E t \in 1..MaxTransports : TransportError(t)
    \/ \E t \in 1..MaxTransports : TransportClosing(t)
    \/ \E t \in 1..MaxTransports : TransportClose(t)

ConnectTransports == 2
ConnectCalls == 2
ConnectSent == 3

SpecConnect ==
    /\ Start(Scope(ConnectTransports, ConnectCalls, 0, ConnectSent))
    /\ [][NextConnect]_vars

\* The command registry: handles from actor(name), on() while the session is
\* not authenticated as that actor, actor(name, options) and its replay.
ActorOnBeforeAuthentication(name, c, h) ==
    /\ ~AnnouncesNow(Cur, name)
    /\ ActorOn(name, c, h)

ActorHandshakeResponses == { m \in HandshakeResponses : m.success }

NextRegistry ==
    \/ \E name \in Actors, opts \in ActorOptions : CallActor(name, opts)
    \/ \E name \in Actors, c \in Commands, h \in Handlers :
           ActorOnBeforeAuthentication(name, c, h)
    \/ \E p \in 1..MaxCalls : ResumeCall(p)
    \/ \E t \in 1..MaxTransports : TransportOpen(t)
    \/ \E t \in 1..MaxTransports, m \in ActorHandshakeResponses :
           ReceiveHandshakeResponse(t, m)
    \/ \E t \in 1..MaxTransports : TransportClosing(t)
    \/ \E t \in 1..MaxTransports : TransportClose(t)

RegistryTransports == 1
RegistryCalls == 2
RegistrySent == 3

SpecRegistry ==
    /\ StartInWorld(Scope(RegistryTransports, RegistryCalls, 0, RegistrySent))
    /\ [][NextRegistry]_vars

\* Inbound commands: an actor with handlers, COMMAND frames, the completion
\* of their handlers and the RESPONSE frames, over transports that can fail.
CommandsInbound ==
    { m \in InboundCommands \cup CommandsWithoutArgs : m.cmd = "c1" \/ m.target = "A" }

NextCommands ==
    \/ \E opts \in ActorOptions : CallActor("A", opts)
    \/ ActorOn("A", "c1", "h1")
    \/ \E p \in 1..MaxCalls : ResumeCall(p)
    \/ \E k \in 1..MaxTasks, oc \in HandlerOutcomes : HandlerCompletes(k, oc)
    \/ \E k \in 1..MaxTasks : ResumeTask(k)
    \/ \E t \in 1..MaxTransports : TransportOpen(t)
    \/ \E t \in 1..MaxTransports, m \in ActorHandshakeResponses :
           ReceiveHandshakeResponse(t, m)
    \/ \E t \in 1..MaxTransports, m \in CommandsInbound : ReceiveCommand(t, m)
    \/ \E t \in 1..MaxTransports : TransportClosing(t)
    \/ \E t \in 1..MaxTransports : TransportClose(t)

CommandsTransports == 2
CommandsCalls == 2
CommandsTasks == 1
CommandsSent == 3

SpecCommands ==
    /\ StartInWorld(Scope(CommandsTransports, CommandsCalls, CommandsTasks, CommandsSent))
    /\ [][NextCommands]_vars

\* Reconnection of an actor: actor("A", options) and authenticate("A"), on(),
\* the handshake, and the loss of the connection.
NextReplay ==
    \/ \E opts \in ActorOptions : CallActor("A", opts)
    \/ CallAuthenticate("A", "m1")
    \/ \E c \in Commands : ActorOn("A", c, "h1")
    \/ \E p \in 1..MaxCalls : ResumeCall(p)
    \/ \E t \in 1..MaxTransports : TransportOpen(t)
    \/ \E t \in 1..MaxTransports, m \in ActorHandshakeResponses :
           ReceiveHandshakeResponse(t, m)
    \/ \E t \in 1..MaxTransports : TransportClose(t)

ReplayTransports == 2
ReplayCalls == 2
ReplaySent == 4

SpecReplay ==
    /\ StartInWorld(Scope(ReplayTransports, ReplayCalls, 0, ReplaySent))
    /\ [][NextReplay]_vars

\* The handshake and its answers: authenticate as an agent or as an actor,
\* every HANDSHAKE_RESPONSE the server can send, errors and closures.
NextHandshake ==
    \/ \E a \in ConnectAuthenticateArgs : CallAuthenticate(a.name, a.md)
    \/ \E p \in 1..MaxCalls : ResumeCall(p)
    \/ \E t \in 1..MaxTransports : TransportOpen(t)
    \/ \E t \in 1..MaxTransports, m \in HandshakeResponses :
           ReceiveHandshakeResponse(t, m)
    \/ \E t \in 1..MaxTransports : TransportError(t)
    \/ \E t \in 1..MaxTransports : TransportClose(t)

HandshakeTransports == 2
HandshakeCalls == 2
HandshakeSent == 2

SpecHandshake ==
    /\ Start(Scope(HandshakeTransports, HandshakeCalls, 0, HandshakeSent))
    /\ [][NextHandshake]_vars

\* The entry points of the session: authenticate, actor(name) and
\* actor(name, options), runCommand / workflow / list_workflows, with and
\* without a worldId, up to the handshake and the loss of the connection.
NextEntry ==
    \/ \E a \in ConnectAuthenticateArgs : CallAuthenticate(a.name, a.md)
    \/ \E opts \in ActorOptions : CallActor("A", opts)
    \/ \E a \in RequestArgs : CallRequest(a.kind, a.name, a.cmd)
    \/ \E p \in 1..MaxCalls : ResumeCall(p)
    \/ \E t \in 1..MaxTransports : TransportOpen(t)
    \/ \E t \in 1..MaxTransports, m \in AgentHandshakeResponses :
           ReceiveHandshakeResponse(t, m)
    \/ \E t \in 1..MaxTransports : TransportClose(t)

EntryTransports == 1
EntryCalls == 3
EntrySent == 3

SpecEntry ==
    /\ Start(Scope(EntryTransports, EntryCalls, 0, EntrySent))
    /\ [][NextEntry]_vars

\* Errors of the transport: an actor with a registered command, a command
\* announced with registerCommand and a workflow request in flight, 'error'
\* and 'close' events of the WebSocket.
NextErrors ==
    \/ CallActor("A", "m1")
    \/ ActorOn("A", "c1", "h1")
    \/ CallRegisterCommand("A", "c1", << "string" >>)
    \/ CallRequest("workflow", None, "wf")
    \/ \E p \in 1..MaxCalls : ResumeCall(p)
    \/ \E t \in 1..MaxTransports : TransportOpen(t)
    \/ \E t \in 1..MaxTransports, m \in ActorHandshakeResponses :
           ReceiveHandshakeResponse(t, m)
    \/ \E t \in 1..MaxTransports : TransportError(t)
    \/ \E t \in 1..MaxTransports : TransportClose(t)

ErrorsTransports == 2
ErrorsCalls == 2
ErrorsSent == 3

SpecErrors ==
    /\ StartInWorld(Scope(ErrorsTransports, ErrorsCalls, 0, ErrorsSent))
    /\ [][NextErrors]_vars

\* Malformed inbound data among the traffic of a session: authenticate as an
\* agent or as an actor, a workflow request, the handshake and replies.
NextMalformed ==
    \/ \E a \in ConnectAuthenticateArgs : CallAuthenticate(a.name, a.md)
    \/ CallRequest("workflow", None, "wf")
    \/ \E p \in 1..MaxCalls : ResumeCall(p)
    \/ \E t \in 1..MaxTransports : TransportOpen(t)
    \/ \E t \in 1..MaxTransports, m \in AgentHandshakeResponses :
           ReceiveHandshakeResponse(t, m)
    \/ \E t \in 1..MaxTransports, m \in Replies : ReceiveReply(t, m)
    \/ \E t \in 1..MaxTransports, m \in MalformedFrames : ReceiveMalformed(t, m)
    \/ \E t \in 1..MaxTransports : TransportClose(t)

MalformedTransports == 1
MalformedCalls == 2
MalformedSent == 2

SpecMalformed ==
    /\ Start(Scope(MalformedTransports, MalformedCalls, 0, MalformedSent))
    /\ [][NextMalformed]_vars

\* Handlers that take their time: an actor with a handler and a workflow
\* request of its own, COMMAND frames and replies arriving while handlers run.
ConcurrentTasks == 2
ConcurrentTransports == 1
ConcurrentCalls == 2
ConcurrentSent == 5

ConcurrentCommands ==
    { m \in InboundCommands : m.target = "A" /\ m.cmd = "c1" /\ m.src = "ch1" }

ConcurrentReplies == { m \in Replies : m.type = "WORKFLOW_RESULT" }

NextConcurrent ==
    \/ CallActor("A", "m1")
    \/ ActorOn("A", "c1", "h1")
    \/ CallRequest("workflow", None, "wf")
    \/ \E p \in 1..MaxCalls : ResumeCall(p)
    \/ \E k \in 1..ConcurrentTasks, oc \in {"returns", "throwsError"} :
           HandlerCompletes(k, oc)
    \/ \E t \in 1..MaxTransports : TransportOpen(t)
    \/ \E t \in 1..MaxTransports, m \in ActorHandshakeResponses :
           ReceiveHandshakeResponse(t, m)
    \/ \E t \in 1..MaxTransports, m \in ConcurrentCommands : ReceiveCommand(t, m)
    \/ \E t \in 1..MaxTransports, m \in ConcurrentReplies : ReceiveReply(t, m)

SpecConcurrent ==
    /\ StartInWorld(Scope(ConcurrentTransports, ConcurrentCalls, ConcurrentTasks,
                          ConcurrentSent))
    /\ [][NextConcurrent]_vars

\* Dispatch of inbound commands by a session that holds the handle of actor
\* A: authenticated as an agent, or as actor A, with on() registrations.
NextDispatch ==
    \/ CallAuthenticate(None, None)
    \/ \E opts \in ActorOptions : CallActor("A", opts)
    \/ ActorOn("A", "c1", "h1")
    \/ \E p \in 1..MaxCalls : ResumeCall(p)
    \/ \E k \in 1..MaxTasks : HandlerCompletes(k, "returns")
    \/ \E t \in 1..MaxTransports : TransportOpen(t)
    \/ \E t \in 1..MaxTransports, m \in ActorHandshakeResponses :
           ReceiveHandshakeResponse(t, m)
    \/ \E t \in 1..MaxTransports, m \in ConcurrentCommands : ReceiveCommand(t, m)
    \/ \E t \in 1..MaxTransports : TransportClose(t)

DispatchTransports == 1
DispatchCalls == 2
DispatchTasks == 1
DispatchSent == 3

SpecDispatch ==
    /\ StartInWorld(Scope(DispatchTransports, DispatchCalls, DispatchTasks, DispatchSent))
    /\ [][NextDispatch]_vars

\* Overlapping actor(name, options) calls: a handle, on(), and two
\* actor("A", options) calls that can be made before the first has returned.
NextOverlap ==
    \/ \E opts \in ActorOptions : CallActor("A", opts)
    \/ ActorOn("A", "c1", "h1")
    \/ \E p \in 1..MaxCalls : ResumeCall(p)
    \/ \E t \in 1..MaxTransports : TransportOpen(t)
    \/ \E t \in 1..MaxTransports, m \in ActorHandshakeResponses :
           ReceiveHandshakeResponse(t, m)
    \/ \E t \in 1..MaxTransports : TransportClose(t)

OverlapTransports == 1
OverlapCalls == 3
OverlapSent == 4

SpecOverlap ==
    /\ StartInWorld(Scope(OverlapTransports, OverlapCalls, 0, OverlapSent))
    /\ [][NextOverlap]_vars

\* End to end: the session is actor A and runs a command of A; the server
\* relays the COMMAND frame to the actor's session and the actor's RESPONSE
\* frame back to the caller, fields unchanged (an undefined field is absent
\* from the JSON text).
RelayedCommand(f) ==
    [BlankInbound EXCEPT !.type = "COMMAND", !.target = f.actor, !.cmd = f.cmd,
                         !.rid = f.rid, !.src = "ch1"]

RelayedResponse(f) ==
    [BlankInbound EXCEPT !.type = "RESPONSE", !.rid = f.rid,
                         !.result = f.result, !.error = f.error]

RelayCommand(t, i) ==
    /\ i \in 1..Len(sent)
    /\ sent[i].type = "COMMAND"
    /\ sent[i].t = t
    /\ ReceiveCommand(t, RelayedCommand(sent[i]))

RelayResponse(t, i) ==
    /\ i \in 1..Len(sent)
    /\ sent[i].type = "RESPONSE"
    /\ sent[i].t = t
    /\ ReceiveReply(t, RelayedResponse(sent[i]))

NextEndToEnd ==
    \/ CallActor("A", "m1")
    \/ ActorOn("A", "c1", "h1")
    \/ CallRequest("runCommand", "A", "c1")
    \/ \E p \in 1..MaxCalls : ResumeCall(p)
    \/ \E k \in 1..MaxTasks, oc \in HandlerOutcomes : HandlerCompletes(k, oc)
    \/ \E t \in 1..MaxTransports : TransportOpen(t)
    \/ \E t \in 1..MaxTransports, m \in ActorHandshakeResponses :
           ReceiveHandshakeResponse(t, m)
    \/ \E t \in 1..MaxTransports, i \in 1..MaxSent : RelayCommand(t, i)
    \/ \E t \in 1..MaxTransports, i \in 1..MaxSent : RelayResponse(t, i)
    \/ \E t \in 1..MaxTransports : TransportClose(t)

EndToEndTransports == 1
EndToEndCalls == 2
EndToEndTasks == 1
EndToEndSent == 4

SpecEndToEnd ==
    /\ StartInWorld(Scope(EndToEndTransports, EndToEndCalls, EndToEndTasks, EndToEndSent))
    /\ [][NextEndToEnd]_vars

\* Disconnecting an actor: sessions authenticated as an agent or as an actor,
\* disconnectIfActor for either actor name, and the close that follows.
NextDisconnect ==
    \/ CallAuthenticate(None, None)
    \/ \E name \in Actors : CallActor(name, "m1")
    \/ \E name \in Actors : DisconnectIfActor(name)
    \/ \E p \in 1..MaxCalls : ResumeCall(p)
    \/ \E t \in 1..MaxTransports : TransportOpen(t)
    \/ \E t \in 1..MaxTransports, m \in ActorHandshakeResponses :
           ReceiveHandshakeResponse(t, m)
    \/ \E t \in 1..MaxTransports : TransportError(t)
    \/ \E t \in 1..MaxTransports : TransportClose(t)

DisconnectTransports == 2
DisconnectCalls == 2
DisconnectSent == 2

SpecDisconnect ==
    /\ StartInWorld(Listing(Scope(DisconnectTransports, DisconnectCalls, 0,
                                  DisconnectSent)))
    /\ [][NextDisconnect]_vars

OverrideTransports == 1
OverrideCalls == 1
OverrideTasks == 2
OverrideSent == 5

\* Registering a command again: actor A, on() and registerActorCommandHandler
\* with either handler for the same command, inbound COMMAND frames for it
\* and their handlers.
NextOverride ==
    \/ CallActor("A", "m1")
    \/ \E h \in Handlers : ActorOn("A", "c1", h)
    \/ \E h \in Handlers, types \in ParameterTypeLists :
           CallRegisterActorCommandHandler("A", "c1", h, types)
    \/ \E p \in 1..MaxCalls : ResumeCall(p)
    \/ \E k \in 1..OverrideTasks : HandlerCompletes(k, "returns")
    \/ \E t \in 1..MaxTransports : TransportOpen(t)
    \/ \E t \in 1..MaxTransports, m \in ActorHandshakeResponses :
           ReceiveHandshakeResponse(t, m)
    \/ \E t \in 1..MaxTransports, m \in ConcurrentCommands : ReceiveCommand(t, m)
    \/ \E t \in 1..MaxTransports : TransportClose(t)

SpecOverride ==
    /\ StartInWorld(Scope(OverrideTransports, OverrideCalls, OverrideTasks, OverrideSent))
    /\ [][NextOverride]_vars

\* ------------------------------------------------------------ properties
CallIds == 1..Len(calls)

\* What settling with reply frame m means for the caller: rejected with the
\* frame's error, or resolved with its result (its workflows, an empty list
\* when a WORKFLOW_LIST frame carries none).
ReplyOutcome(m) ==
    IF m.error \notin {Undef, ""} THEN [out |-> "rejected", val |-> m.error]
    ELSE [out |-> "resolved",
          val |-> IF m.type = "WORKFLOW_LIST" /\ ~Truthy(m.result) THEN "[]"
                  ELSE m.result]

\* Request call p has taken its request id and has not been settled.
Outstanding(p) ==
    /\ calls[p].kind \in RequestKinds
    /\ calls[p].rid # 0
    /\ calls[p].pc # "done"

\* C2: when a RESPONSE, WORKFLOW_RESULT or WORKFLOW_LIST frame arrives, every
\* outstanding call whose request id is the frame's requestId is settled in
\* that step with what the frame carries (its result, or its error), and
\* every other call, outstanding under another id or settled before, is
\* left as it was.
C2_EachCallSettledByItsFrame ==
    [][\A t \in 1..MaxTransports, m \in Replies :
          ReceiveReply(t, m) =>
              \A p \in CallIds :
                  IF Outstanding(p) /\ calls[p].rid = m.rid
                  THEN /\ calls'[p].pc = "done"
                       /\ calls'[p].by = m.rid
                       /\ calls'[p].out = ReplyOutcome(m).out
                       /\ calls'[p].val = ReplyOutcome(m).val
                  ELSE calls'[p] = calls[p]]_vars

\* C3: registering a new request never overwrites an outstanding entry of the
\* pending table (the id generateRequestId returned is not pending).
C3_NewIdNotPending ==
    [][\A id \in RequestIds :
          pendingRequests[id] # 0 => pendingRequests'[id] \in {0, pendingRequests[id]}]_vars

\* The close event of the transport of an authenticated session.
ReadyCloses == authenticated /\ ~authenticated'

\* C4: when the transport of an authenticated session closes, every
\* outstanding request call is rejected with the Connection Lost error, no
\* other call changes, and the pending table is empty afterwards.
C4_CloseRejectsAllOutstanding ==
    [][ReadyCloses =>
          /\ \A id \in RequestIds : pendingRequests'[id] = 0
          /\ \A p \in CallIds :
                 IF Outstanding(p)
                 THEN /\ calls'[p].pc = "done"
                      /\ calls'[p].out = "rejected"
                      /\ calls'[p].val = ConnectionLostError
                 ELSE calls'[p] = calls[p]]_vars

\* ---- inbound commands
ResponsesFor(k) ==
    {i \in 1..Len(sent) :
        /\ sent[i].type = "RESPONSE"
        /\ sent[i].rid = tasks[k].rid
        /\ sent[i].chan = (IF tasks[k].src # None THEN tasks[k].src ELSE "")}

\* C1: for every inbound COMMAND that found a registered handler, once the
\* handler has returned, rejected or thrown and the code that follows has run,
\* exactly one RESPONSE frame with the command's requestId and its source
\* channel as targetChannel has been sent: never zero and never two.
C1_ExactlyOneResponse ==
    \A k \in 1..Len(tasks) :
        tasks[k].st = "done" => Cardinality(ResponsesFor(k)) = 1

\* ---- the command registry
RegisterFramesFor(name, c, t) ==
    {i \in 1..Len(sent) :
        /\ sent[i].type = "REGISTER_COMMAND"
        /\ sent[i].actor = name
        /\ sent[i].cmd = c
        /\ sent[i].t = t}

\* actor(name, options) call p has returned the handle and the session is
\* authenticated under that name on the transport the call waited for.
AuthenticatedAs(p) ==
    /\ calls[p].kind = "actor"
    /\ calls[p].opts # None
    /\ calls[p].pc = "done"
    /\ calls[p].out = "resolved"
    /\ authenticated
    /\ ws = calls[p].joined
    /\ actorName = calls[p].name

\* C5: commands registered with on() for actor A while the session is not
\* authenticated as A are announced when actor(A, options) authenticates:
\* when that call has returned, exactly one REGISTER_COMMAND frame has been
\* sent on its transport for each command of A that has a handler.
C5_OneRegisterPerCommand ==
    \A p \in CallIds :
        AuthenticatedAs(p) =>
            \A c \in Commands :
                HasHandler(Cur, calls[p].name, c) =>
                    Cardinality(RegisterFramesFor(calls[p].name, c, calls[p].joined)) = 1

\* ---- connection lifecycle
\* A call is made in this step; it is the last of calls'.
CallBegins == Len(calls') = Len(calls) + 1
NewCallId == Len(calls')

\* Call p returns successfully in this step.
Returns(p) ==
    /\ p \in 1..Len(calls')
    /\ calls'[p].pc = "done"
    /\ calls'[p].out = "resolved"
    /\ p \in CallIds => calls[p].pc # "done"

\* C6: when actor(name, options) returns successfully, the current transport
\* had its HANDSHAKE answered with success and that HANDSHAKE carried
\* actorName = name, whatever the session was authenticated as before.
C6_ActorReturnsAuthenticatedAsName ==
    [][\A p \in 1..MaxCalls :
          (Returns(p) /\ calls'[p].kind = "actor" /\ calls'[p].opts # None) =>
              /\ ws' # 0
              /\ transports'[ws'].acked
              /\ \E i \in 1..Len(sent') :
                     /\ sent'[i].type = "HANDSHAKE"
                     /\ sent'[i].t = ws'
                     /\ sent'[i].actor = calls'[p].name]_vars

\* The stored connection outcome is the rejection by a HANDSHAKE_RESPONSE with
\* success:false (the transport is still open).
HandshakeRefused ==
    /\ connectionPromise # 0
    /\ promises[connectionPromise].state = "rejected"
    /\ transports[connectionPromise].readyState = OPEN

\* C7: after a HANDSHAKE_RESPONSE with success:false has rejected the
\* connection, a fresh connect() or authenticate() call starts a new attempt:
\* it creates a new transport and waits for that one, not for the old outcome.
C7_FreshCallRetries ==
    [][(/\ HandshakeRefused
        /\ CallBegins
        /\ calls'[NewCallId].kind \in {"connect", "authenticate"}
        /\ calls'[NewCallId].pc # "done") =>
            /\ Len(transports') = Len(transports) + 1
            /\ calls'[NewCallId].joinedAs = "new"]_vars

\* C8: once a transport that never got its handshake answered is closed, the
\* outcome the connect()/authenticate() calls on it wait for is settled.
C8_ClosureSettlesConnect ==
    \A t \in 1..Len(transports) :
        (transports[t].readyState = CLOSED /\ ~transports[t].acked) =>
            promises[t].state # "pending"

\* The session as the close of a Ready session left it.
ResetAfterReady ==
    /\ ~connected
    /\ ~authenticated
    /\ connectionPromise = 0
    /\ ws # 0
    /\ transports[ws].acked
    /\ transports[ws].readyState = CLOSED

HandshakesOn(t) ==
    {i \in 1..Len(sent') : sent'[i].type = "HANDSHAKE" /\ sent'[i].t = t}

\* C9: the close of a Ready session resets it (not connected, not
\* authenticated, no stored connection outcome); a runCommand, workflow,
\* list_workflows or actor(name, options) call made in that state creates a
\* new transport and waits for its outcome; and a transport that opens gets
\* a HANDSHAKE as the next frame.
C9_ReadyCloseResetsAndReconnects ==
    [][/\ ReadyCloses => (~connected' /\ connectionPromise' = 0)
       /\ (/\ ResetAfterReady
           /\ CallBegins
           /\ \/ calls'[NewCallId].kind \in RequestKinds
              \/ calls'[NewCallId].kind = "actor" /\ calls'[NewCallId].opts # None
           /\ calls'[NewCallId].pc # "done") =>
               /\ Len(transports') = Len(transports) + 1
               /\ ws' = Len(transports')
               /\ transports'[ws'].readyState = CONNECTING
               /\ calls'[NewCallId].joinedAs = "new"
               /\ calls'[NewCallId].joined = ws'
               /\ promises'[ws'].state = "pending"
       /\ \A t \in 1..Len(transports) :
              (transports[t].readyState = CONNECTING
               /\ transports'[t].readyState = OPEN) =>
                  /\ Len(sent') = Len(sent) + 1
                  /\ HandshakesOn(t) = {Len(sent')}]_vars

\* C9 witness: the first transport was Ready and closed; a list_workflows
\* call made afterwards created the second transport, whose handshake was
\* answered, and the request went out on it.
C9_Witness ==
    /\ Len(transports) = 2
    /\ transports[1].acked /\ transports[1].readyState = CLOSED
    /\ transports[2].acked
    /\ \E p \in CallIds :
           /\ calls[p].kind = "list_workflows"
           /\ calls[p].joinedAs = "new"
           /\ calls[p].joined = 2
           /\ calls[p].pc = "pending"
           /\ \E i \in 1..Len(sent) : sent[i].t = 2 /\ sent[i].rid = calls[p].rid
                                       /\ sent[i].type = "LIST_WORKFLOWS"

\* connect() call q waits for a connection promise that has not settled.
ConnectInFlight(q) ==
    /\ calls[q].kind = "connect"
    /\ calls[q].pc = "await_connect"
    /\ promises[calls[q].joined].state = "pending"

\* C10: a connect() call made while an earlier connect() call is in flight
\* creates no transport and sends nothing, and waits for the promise the
\* earlier call waits for; every connect() call that has returned has the
\* outcome of the promise it waited for; and no transport is sent a second
\* HANDSHAKE.
C10_ConnectJoinsInFlight ==
    [][/\ \A q \in CallIds :
              (/\ ConnectInFlight(q)
               /\ CallBegins
               /\ calls'[NewCallId].kind = "connect") =>
                  /\ transports' = transports
                  /\ promises' = promises
                  /\ sent' = sent
                  /\ calls'[NewCallId].joined = calls[q].joined
       /\ \A p \in 1..Len(calls') :
              (calls'[p].kind = "connect" /\ calls'[p].pc = "done") =>
                  /\ calls'[p].out = promises'[calls'[p].joined].state
                  /\ calls'[p].out = "rejected" =>
                         calls'[p].val = promises'[calls'[p].joined].reason
       /\ \A t \in 1..Len(transports') : Cardinality(HandshakesOn(t)) <= 1]_vars

\* ---- one transport
OpenTransports == {t \in 1..Len(transports) : transports[t].readyState # CLOSED}

\* C11: in every reachable state at most one transport of the session is not
\* closed, and it is the current one.
C11_AtMostOneTransport ==
    /\ Cardinality(OpenTransports) <= 1
    /\ \A t \in OpenTransports : t = ws

\* C11 witness: a second transport was created after the first one closed,
\* and it is open.
C11_Witness ==
    /\ Len(transports) = 2
    /\ transports[1].readyState = CLOSED
    /\ transports[2].readyState = OPEN

\* ---- failing handlers
\* The handler of task k settles in this step by throwing or rejecting.
HandlerFails(k) ==
    /\ k \in 1..Len(tasks)
    /\ tasks[k].st = "running"
    /\ tasks'[k].st # "running"
    /\ tasks'[k].oc # "returns"

\* The message of what the handler threw (Undef when the value has none).
ThrownMessage(oc) ==
    IF oc = "throwsError" THEN HandlerErrorMessage
    ELSE IF oc = "throwsEmptyError" THEN ""
    ELSE Undef

\* C12: when the handler of an inbound COMMAND throws or rejects while the
\* transport is open, a RESPONSE with the command's requestId, `error` equal
\* to the thrown message and no `result` is sent, and the connection state,
\* the pending table and the registry are unchanged.
C12_FailingHandlerAnswered ==
    [][\A k \in 1..MaxTasks :
          (/\ HandlerFails(k)
           /\ connected
           /\ ws # 0
           /\ transports[ws].readyState = OPEN) =>
              /\ Len(sent') = Len(sent) + 1
              /\ sent'[Len(sent')].type = "RESPONSE"
              /\ sent'[Len(sent')].rid = tasks[k].rid
              /\ sent'[Len(sent')].result = Undef
              /\ sent'[Len(sent')].error = ThrownMessage(tasks'[k].oc)
              /\ UNCHANGED << ws, connected, authenticated, connectionPromise,
                              transports, pendingRequests, actorCommandHandlers,
                              actorCommandSignatures >>]_vars

\* ---- lazy authentication of requests
\* Request call p, made while the session was not authenticated, has its
\* frame sent in this step.
LazyRequestSends(p) ==
    /\ p \in CallIds
    /\ calls[p].kind \in RequestKinds
    /\ calls[p].joined # 0
    /\ calls[p].pc # "pending"
    /\ calls'[p].pc = "pending"

\* C13: the frame of a runCommand / workflow / list_workflows call made while
\* the session was not authenticated is sent on the current transport only
\* after that transport's HANDSHAKE was answered with success, and that
\* HANDSHAKE carried no actorName.
C13_LazyAgentHandshake ==
    [][\A p \in 1..MaxCalls :
          LazyRequestSends(p) =>
              /\ ws' # 0
              /\ transports'[ws'].acked
              /\ Len(sent') = Len(sent) + 1
              /\ sent'[Len(sent')].t = ws'
              /\ sent'[Len(sent')].rid = calls'[p].rid
              /\ \E i \in 1..Len(sent) :
                     /\ sent[i].type = "HANDSHAKE"
                     /\ sent[i].t = ws'
                     /\ sent[i].actor = None]_vars

\* ---- send failures
\* The frame of request call p could not be sent, and the .catch callback of
\* the request runs in this step.
SendFails(p) ==
    /\ p \in CallIds
    /\ calls[p].pc = "send_failed"
    /\ calls'[p].pc = "done"

\* C14: when the frame of a runCommand / workflow / list_workflows call cannot
\* be sent, that call is rejected with the send error and its id is removed
\* from the pending table; every other call is left as it was, each other
\* outstanding call is in the table under its id afterwards, and nothing is
\* sent.
C14_SendFailureRejectsOnlyThatCall ==
    [][\A p \in 1..MaxCalls :
          SendFails(p) =>
              /\ calls'[p].out = "rejected"
              /\ calls'[p].val = calls[p].val
              /\ pendingRequests'[calls[p].rid] = 0
              /\ \A q \in CallIds \ {p} :
                     /\ calls'[q] = calls[q]
                     /\ Outstanding(q) => pendingRequests'[calls[q].rid] = q
              /\ sent' = sent]_vars

\* ---- replay after a reconnect
\* Call p returns in this step from the authentication as its actor that it
\* started on a transport made after an earlier, authenticated one was lost.
ReauthenticatedAs(p) ==
    /\ Returns(p)
    /\ calls'[p].kind \in {"actor", "authenticate"}
    /\ calls'[p].name # None
    /\ calls'[p].joinedAs = "new"
    /\ calls'[p].joined > 1
    /\ transports'[calls'[p].joined - 1].acked
    /\ authenticated'
    /\ ws' = calls'[p].joined
    /\ actorName' = calls'[p].name

\* C15: a connection loss leaves the handlers and signatures of the registry
\* as they were, and when the next authentication as an actor (by
\* actor(name, options) or by authenticate(name)) has succeeded, every command
\* of that actor with a handler has been announced with REGISTER_COMMAND on
\* the new transport.
C15_RegistryReplayedAfterReconnect ==
    [][/\ ReadyCloses =>
              UNCHANGED << actorCommandHandlers, actorCommandSignatures >>
       /\ \A p \in 1..MaxCalls :
              ReauthenticatedAs(p) =>
                  \A c \in Commands :
                      actorCommandHandlers'[calls'[p].name][c] # None =>
                          \E i \in 1..Len(sent') :
                              /\ sent'[i].type = "REGISTER_COMMAND"
                              /\ sent'[i].actor = calls'[p].name
                              /\ sent'[i].cmd = c
                              /\ sent'[i].t = calls'[p].joined]_vars

\* ---- the outcome of a refused handshake
InvalidKeyResponses ==
    {m \in HandshakeResponses : ~m.success /\ m.error_code = "invalid_api_key"}

\* Frame m is received on transport t in this step while the connection
\* promise of t waits for the handshake response.
AnswersHandshake(t, m) ==
    /\ t \in 1..Len(transports)
    /\ transports[t].authListener
    /\ promises[t].state = "pending"
    /\ ReceiveHandshakeResponse(t, m)

\* C16: a HANDSHAKE_RESPONSE with success:false and error_code
\* 'invalid_api_key' rejects the connection promise with the invalid-or-expired
\* API key message, whatever its message field holds: never with the generic
\* message and never with the server's message.
C16_InvalidApiKeyMessage ==
    [][\A t \in 1..MaxTransports, m \in InvalidKeyResponses :
          AnswersHandshake(t, m) =>
              /\ promises'[t].state = "rejected"
              /\ promises'[t].reason = InvalidApiKeyError
              /\ promises'[t].reason # GenericAuthError
              /\ promises'[t].reason \notin ServerMessages]_vars

\* C16 witness: an authenticate() call was rejected with the invalid API key
\* message.
C16_Witness ==
    \E t \in 1..Len(transports) :
        /\ promises[t].state = "rejected"
        /\ promises[t].reason = InvalidApiKeyError
        /\ transports[t].readyState = OPEN
        /\ ~transports[t].authListener

\* ---- what authenticate returns
\* The messages a refused handshake rejects with.
HandshakeErrors ==
    {AuthErrorMessage(m) : m \in {r \in HandshakeResponses : ~r.success}}

\* authenticate() call p, which awaited a connection promise, ends in this step.
AuthenticateEnds(p) ==
    /\ p \in CallIds
    /\ calls[p].kind = "authenticate"
    /\ calls[p].pc = "await_connect"
    /\ calls'[p].pc = "done"

\* C17: authenticate returns true exactly when the session is
\* authenticated, and when the handshake was answered with success:false it
\* does not throw: it returns false.
C17_AuthenticateNeverThrows ==
    [][\A p \in 1..MaxCalls :
          AuthenticateEnds(p) =>
              /\ calls'[p].out = "resolved" =>
                     (calls'[p].val = "true" <=> authenticated')
              /\ (/\ promises[calls[p].joined].state = "rejected"
                  /\ promises[calls[p].joined].reason \in HandshakeErrors) =>
                     (calls'[p].out = "resolved" /\ calls'[p].val = "false")]_vars

\* ---- the entry points
\* Everything of the session except the list of calls and the handles given out.
SessionUntouched ==
    UNCHANGED << worldId, ws, connected, authenticated, clientId, actorName,
                 connectionPromise, connectionReject, pendingRequests,
                 actorCommandHandlers, actorCommandSignatures, actorMetadata,
                 transports, promises, sent, tasks >>

\* actor(name) is called without options in this step.
ActorHandleRequested ==
    /\ CallBegins
    /\ calls'[NewCallId].kind = "actor"
    /\ calls'[NewCallId].opts = None

\* runCommand is called in this step on a session with a worldId that is
\* neither authenticated nor connecting.
FirstCommandRuns ==
    /\ CallBegins
    /\ calls'[NewCallId].kind = "runCommand"
    /\ worldId # None
    /\ ~authenticated
    /\ connectionPromise = 0

\* C18: actor(name) without options returns a handle and opens no transport,
\* sends no frame, and leaves the identity, the stored metadata, the registry
\* and the pending table as they were; the connection is made when a command
\* is run: runCommand on a session that is not connected opens the transport.
C18_ActorHandleIsLazy ==
    [][/\ ActorHandleRequested =>
              /\ SessionUntouched
              /\ calls'[NewCallId].pc = "done"
              /\ calls'[NewCallId].out = "resolved"
              /\ calls'[NewCallId].joined = 0
              /\ handles' = handles \cup {calls'[NewCallId].name}
       /\ FirstCommandRuns =>
              /\ Len(transports') = Len(transports) + 1
              /\ ws' = Len(transports')
              /\ calls'[NewCallId].joined = connectionPromise'
              /\ sent' = sent]_vars

\* C18 witness: actor('A') returned a handle while nothing was connected, and
\* a command run afterwards made the connection and sent its COMMAND frame.
C18_Witness ==
    \E p, q \in CallIds :
        /\ p < q
        /\ calls[p].kind = "actor" /\ calls[p].opts = None
        /\ calls[p].pc = "done" /\ calls[p].out = "resolved"
        /\ calls[q].kind = "runCommand" /\ calls[q].name = calls[p].name
        /\ calls[q].joinedAs = "new"
        /\ calls[q].pc = "pending"
        /\ actorName = None
        /\ \A r \in CallIds : r < q => calls[r].joined = 0

\* ---- the worldId requirement
WorldIdErrors ==
    {AuthenticateNeedsWorldError, ActorNeedsWorldIdError, RunCommandNeedsWorldError}

\* A call that needs a worldId is made in this step on a session without one.
NeedsWorldId ==
    /\ CallBegins
    /\ worldId = None
    /\ \/ calls'[NewCallId].kind = "runCommand"
       \/ calls'[NewCallId].kind = "actor" /\ calls'[NewCallId].opts # None
       \/ calls'[NewCallId].kind = "authenticate" /\ calls'[NewCallId].name # None

\* workflow or list_workflows is called in this step on a session without a
\* worldId.
WorkflowWithoutWorldId ==
    /\ CallBegins
    /\ worldId = None
    /\ calls'[NewCallId].kind \in {"workflow", "list_workflows"}

\* C19: without a worldId, runCommand, actor(name, options) and
\* authenticate(actorName) fail at once with their worldId error and open no
\* transport, change neither identity nor metadata, and add no pending
\* request; workflow and list_workflows go on: they wait for the connection
\* or register their request, and never fail with a worldId error.
C19_WorldIdRequiredForActors ==
    [][/\ NeedsWorldId =>
              /\ SessionUntouched
              /\ handles' = handles
              /\ calls'[NewCallId].pc = "done"
              /\ calls'[NewCallId].out = "rejected"
              /\ calls'[NewCallId].val \in WorldIdErrors
       /\ WorkflowWithoutWorldId =>
              /\ calls'[NewCallId].val \notin WorldIdErrors
              /\ IF authenticated
                 THEN /\ calls'[NewCallId].rid # 0
                      /\ calls'[NewCallId].pc \in {"pending", "await_send", "done"}
                 ELSE /\ calls'[NewCallId].pc = "await_connect"
                      /\ calls'[NewCallId].joined = connectionPromise'
                      /\ connectionPromise' # 0]_vars

\* C19 witness: on a session without worldId authenticate('A') failed with its
\* worldId error and a workflow called afterwards went through to its frame.
C19_Witness ==
    /\ worldId = None
    /\ \E p, q \in CallIds :
           /\ calls[p].kind = "authenticate" /\ calls[p].name # None
           /\ calls[p].pc = "done" /\ calls[p].val = AuthenticateNeedsWorldError
           /\ calls[q].kind = "workflow" /\ calls[q].pc = "pending"
           /\ p < q
    /\ actorName = None
    /\ \E i \in 1..Len(sent) : sent[i].type = "WORKFLOW"

\* ---- errors of the transport
\* The 'error' event of transport t is delivered in this step to a session
\* that is connected and authenticated.
ErrorAfterReady(t) ==
    /\ connected
    /\ authenticated
    /\ TransportError(t)

\* C20: an 'error' event of the transport of a Ready session leaves connected,
\* authenticated, the pending table and the registry as they were and rejects
\* no pending request (no call changes at all); the session is torn down
\* only by a step in which the current transport becomes CLOSED.
C20_ErrorAfterReadyChangesNothing ==
    [][/\ \A t \in 1..MaxTransports :
              ErrorAfterReady(t) =>
                  UNCHANGED << connected, authenticated, pendingRequests,
                               actorCommandHandlers, actorCommandSignatures,
                               calls, connectionPromise, promises, ws, sent >>
       /\ (authenticated /\ ~authenticated') =>
              /\ transports[ws].readyState # CLOSED
              /\ transports'[ws].readyState = CLOSED]_vars

\* C20 witness: the transport of a Ready actor session has had its 'error'
\* event while a workflow request was pending and a command was registered;
\* the session is still Ready and the request still pending.
C20_Witness ==
    /\ connected /\ authenticated
    /\ ws # 0 /\ transports[ws].readyState = CLOSING
    /\ actorCommandHandlers["A"]["c1"] # None
    /\ \E p \in CallIds, id \in RequestIds :
           /\ pendingRequests[id] = p
           /\ calls[p].kind = "workflow"
           /\ calls[p].pc = "pending"

\* ---- the assigned clientId
\* C21: in every reachable state an authenticated session holds a non-empty
\* clientId.
C21_AuthenticatedHasClientId ==
    authenticated => (clientId # "" /\ clientId # Undef /\ clientId # None)

\* ---- workflow round trip
\* workflow() call p takes its request id in this step.
WorkflowRegisters(p) ==
    /\ p \in 1..Len(calls')
    /\ calls'[p].kind = "workflow"
    /\ calls'[p].rid # 0
    /\ p \in CallIds => calls[p].rid = 0

\* The WORKFLOW frames for request id written in this step.
WorkflowFramesSent(id) ==
    {i \in (Len(sent) + 1)..Len(sent') :
        sent'[i].type = "WORKFLOW" /\ sent'[i].rid = id}

\* C22: workflow(name, args) sends one WORKFLOW frame under a fresh request
\* id (an id no outstanding request holds), and the WORKFLOW_RESULT frame
\* bearing that id settles the call: resolved with exactly the frame's
\* result, or rejected with its error when it carries one.
C22_WorkflowRoundTrip ==
    [][\A p \in 1..MaxCalls :
          /\ WorkflowRegisters(p) =>
                 /\ pendingRequests[calls'[p].rid] = 0
                 /\ calls'[p].pc = "pending" =>
                        Cardinality(WorkflowFramesSent(calls'[p].rid)) = 1
          /\ \A t \in 1..MaxTransports, m \in Replies :
                 (/\ p \in CallIds
                  /\ calls[p].kind = "workflow"
                  /\ calls[p].pc = "pending"
                  /\ m.type = "WORKFLOW_RESULT"
                  /\ m.rid = calls[p].rid
                  /\ ReceiveReply(t, m)) =>
                     /\ calls'[p].pc = "done"
                     /\ calls'[p].out = ReplyOutcome(m).out
                     /\ calls'[p].val = ReplyOutcome(m).val]_vars

\* ---- commands nobody handles
\* COMMAND frame m names an actor or a command without a registered handler.
Unhandled(m) == actorCommandHandlers[m.target][m.cmd] = None

\* C23: an inbound COMMAND frame naming an actor or a command for which no
\* handler is registered sends no RESPONSE, starts no handler and changes
\* nothing in the session.
C23_UnknownCommandIgnored ==
    [][\A t \in 1..MaxTransports, m \in InboundCommands \cup CommandsWithoutArgs :
          (Unhandled(m) /\ ReceiveCommand(t, m)) =>
              /\ sent' = sent
              /\ tasks' = tasks
              /\ UNCHANGED session]_vars

\* C23 witness: a Ready actor session with a handler for one command, whose
\* handler has run for an inbound COMMAND, and with no handler for the other
\* command nor for the other actor: frames naming those are the ignored ones.
C23_Witness ==
    /\ authenticated /\ actorName = "A"
    /\ ws # 0 /\ transports[ws].readyState = OPEN
    /\ actorCommandHandlers["A"]["c1"] # None
    /\ actorCommandHandlers["A"]["c2"] = None
    /\ \A c \in Commands : actorCommandHandlers["B"][c] = None
    /\ Len(tasks) = 1
    /\ \A i \in 1..Len(sent) : sent[i].type # "RESPONSE"

\* ---- malformed inbound data
\* C24: inbound data that is not JSON or violates the frame schema is
\* dropped: the step that receives it changes nothing, so that the frames
\* and calls that follow are processed as if it had not arrived.
C24_MalformedDropped ==
    [][\A t \in 1..MaxTransports, m \in MalformedFrames :
          ReceiveMalformed(t, m) => UNCHANGED session]_vars

\* ---- frames that arrive while a handler runs
\* The handler of task k has not completed.
Running(k) == k \in 1..Len(tasks) /\ tasks[k].st = "running"

\* C25: while the handler of one inbound COMMAND has not completed, the
\* frames that arrive are processed all the same: a COMMAND that has a
\* handler starts it, that handler's RESPONSE is sent when it completes, and
\* a reply settles the pending request it names; the first handler is still
\* running after each of these steps.
C25_RunningHandlerBlocksNothing ==
    [][\A k \in 1..ConcurrentTasks : Running(k) =>
          /\ \A t \in 1..MaxTransports, m \in InboundCommands :
                 (~Unhandled(m) /\ ReceiveCommand(t, m)) =>
                     /\ Len(tasks') = Len(tasks) + 1
                     /\ tasks'[Len(tasks')].st = "running"
                     /\ tasks'[k].st = "running"
          /\ \A j \in 1..ConcurrentTasks \ {k} :
                 (/\ Running(j) /\ ~Running(j)'
                  /\ ws # 0 /\ transports[ws].readyState = OPEN) =>
                     /\ Len(sent') = Len(sent) + 1
                     /\ sent'[Len(sent')].type = "RESPONSE"
                     /\ sent'[Len(sent')].rid = tasks[j].rid
                     /\ tasks'[k].st = "running"
          /\ \A t \in 1..MaxTransports, m \in Replies :
                 (pendingRequests[m.rid] # 0 /\ ReceiveReply(t, m)) =>
                     /\ calls'[pendingRequests[m.rid]].pc = "done"
                     /\ calls'[pendingRequests[m.rid]].by = m.rid
                     /\ pendingRequests'[m.rid] = 0
                     /\ tasks'[k].st = "running"]_vars

\* C25 witness: the handler of the first COMMAND is still running, the
\* second COMMAND has been handled and its RESPONSE sent, and a workflow
\* request made meanwhile has been settled by its WORKFLOW_RESULT.
C25_Witness ==
    /\ Len(tasks) = 2
    /\ tasks[1].st = "running"
    /\ tasks[2].st = "done"
    /\ \E i \in 1..Len(sent) : sent[i].type = "RESPONSE"
    /\ \E p \in CallIds :
           /\ calls[p].kind = "workflow"
           /\ calls[p].pc = "done"
           /\ calls[p].by = calls[p].rid
           /\ calls[p].by # 0

\* ---- requests made while an actor authenticates
\* actor(name, options) call p made the connection and awaits its handshake.
ActorInFlight(p) ==
    /\ p \in CallIds
    /\ calls[p].kind = "actor"
    /\ calls[p].opts # None
    /\ calls[p].pc = "await_connect"
    /\ calls[p].joinedAs = "new"
    /\ promises[calls[p].joined].state = "pending"

\* The HANDSHAKE frames written in this step on transport t.
HandshakesSentOn(t) ==
    {i \in (Len(sent) + 1)..Len(sent') :
        sent'[i].type = "HANDSHAKE" /\ sent'[i].t = t}

\* C26: while the authentication of actor(A, options) is in flight, a call
\* of runCommand, workflow or list_workflows does not change the identity:
\* the HANDSHAKE of that connection carries actorName = A, and when the
\* handshake is answered with success the session is authenticated as A.
C26_RequestKeepsActorIdentity ==
    [][\A p \in 1..MaxCalls : ActorInFlight(p) =>
          /\ (CallBegins /\ calls'[NewCallId].kind \in RequestKinds) =>
                 actorName' = calls[p].name
          /\ \A i \in HandshakesSentOn(calls[p].joined) :
                 sent'[i].actor = calls[p].name
          /\ (~authenticated /\ authenticated') =>
                 actorName' = calls[p].name]_vars

\* ---- Actor.on
\* What on(c, h) of the handle of actor `name` stores in the registry.
Registered(name, c, h) ==
    /\ actorCommandHandlers' = [actorCommandHandlers EXCEPT ![name][c] = h]
    /\ actorCommandSignatures'[name].types[c] = getParameterTypes(h)
    /\ \E i \in 1..Len(actorCommandSignatures'[name].order) :
           actorCommandSignatures'[name].order[i] = c
    /\ \A a \in Actors \ {name} :
           actorCommandSignatures'[a] = actorCommandSignatures[a]

\* Exactly the REGISTER_COMMAND frame of (name, c, h) is written in this
\* step, on the current transport.
AnnouncedNow(name, c, h) ==
    sent' = Append(sent, [BlankFrame EXCEPT !.type = "REGISTER_COMMAND",
                                            !.actor = name, !.cmd = c,
                                            !.sig = getParameterTypes(h),
                                            !.t = ws])

\* Everything that Actor.on touches neither in the registry nor on the wire.
OnLeavesSession ==
    UNCHANGED << ws, connected, authenticated, clientId, actorName,
                 connectionPromise, connectionReject, pendingRequests,
                 actorMetadata, transports, promises, calls, tasks, handles >>

\* C27: Actor.on(command, handler) stores the handler and its
\* signature, and sends a REGISTER_COMMAND frame at that moment exactly when
\* the session is authenticated and its actor name is the handle's name.
C27_OnAnnouncesIffAuthenticatedAsActor ==
    [][\A name \in Actors, c \in Commands, h \in Handlers :
          ActorOn(name, c, h) =>
              /\ Registered(name, c, h)
              /\ OnLeavesSession
              /\ IF authenticated /\ actorName = name
                 THEN AnnouncedNow(name, c, h)
                 ELSE sent' = sent]_vars

\* ---- the way to Ready
\* Transport t has opened and sent its HANDSHAKE, and has not closed.
HandshakeSentOn(t) ==
    /\ transports[t].readyState = OPEN
    /\ \E i \in 1..Len(sent) : sent[i].type = "HANDSHAKE" /\ sent[i].t = t

\* C28: authenticated becomes true only in a step that receives a success
\* HANDSHAKE_RESPONSE on the current transport, which has opened, has sent
\* its HANDSHAKE and has not closed; and after every step authenticated
\* implies connected.
C28_ReadyOnlyThroughHandshake ==
    [][/\ (~authenticated /\ authenticated') =>
              \E t \in 1..Len(transports), m \in HandshakeResponses :
                  /\ m.success
                  /\ t = ws
                  /\ connected
                  /\ HandshakeSentOn(t)
                  /\ ReceiveHandshakeResponse(t, m)
                  /\ transports'[t].readyState = OPEN
       /\ authenticated' => connected']_vars

\* C28 witness: the session is Ready on a second transport: the first one
\* opened, had its handshake refused and closed; the second one opened, sent
\* its HANDSHAKE and was answered with success.
C28_Witness ==
    /\ authenticated /\ connected
    /\ ws = 2
    /\ HandshakeSentOn(2)
    /\ promises[1].state = "rejected"
    /\ promises[1].reason \in HandshakeErrors
    /\ promises[2].state = "resolved"

\* ---- the transport of a RESPONSE
\* Task k takes a step: its handler completes, or its RESPONSE continues
\* after the await in sendMessage.
TaskSteps(k) == k \in 1..Len(tasks) /\ tasks'[k] # tasks[k]

\* C29: a RESPONSE is sent only on the transport its COMMAND arrived on: no
\* step of a handler's task opens a transport, and a RESPONSE frame written
\* by the task goes out on the transport recorded with the COMMAND.
C29_ResponseOnArrivalTransport ==
    [][\A k \in 1..MaxTasks : TaskSteps(k) =>
          /\ Len(transports') = Len(transports)
          /\ \A i \in (Len(sent) + 1)..Len(sent') :
                 sent'[i].type = "RESPONSE" => sent'[i].t = tasks[k].t]_vars

\* ---- whose commands a session handles
\* A handler is invoked in this step for an inbound COMMAND.
HandlerInvoked == Len(tasks') = Len(tasks) + 1

\* C30: an inbound COMMAND invokes a local handler only if its
\* targetActorName is the actor name the session is authenticated as: an
\* authenticated session whose identity is an anonymous agent, or another
\* actor, never runs the handler.
C30_HandlerOnlyForOwnActor ==
    [][(authenticated /\ HandlerInvoked) =>
          actorName = tasks'[Len(tasks')].actor]_vars

\* ---- the signature announced for a command
\* The REGISTER_COMMAND frames written in this step.
RegisterFramesSent ==
    {i \in (Len(sent) + 1)..Len(sent') : sent'[i].type = "REGISTER_COMMAND"}

\* C31: every REGISTER_COMMAND frame for (A, c) carries the parameter
\* signature of the handler most recently registered locally for c, and no
\* step that receives a HANDSHAKE_RESPONSE replaces the stored signature of
\* a command that has a local handler.
C31_AnnouncedSignatureIsLocal ==
    [][/\ \A i \in RegisterFramesSent :
              HasHandler(Cur, sent'[i].actor, sent'[i].cmd) =>
                  sent'[i].sig =
                      getParameterTypes(actorCommandHandlers'[sent'[i].actor][sent'[i].cmd])
       /\ \A t \in 1..MaxTransports, m \in HandshakeResponses :
              ReceiveHandshakeResponse(t, m) =>
                  \A a \in Actors, c \in Commands :
                      HasHandler(Cur, a, c) =>
                          actorCommandSignatures'[a].types[c] =
                              actorCommandSignatures[a].types[c]]_vars

\* ---- the HANDSHAKE frame
\* Transport t opens in this step.
Opens(t) ==
    /\ t \in 1..Len(transports)
    /\ transports[t].readyState = CONNECTING
    /\ transports'[t].readyState = OPEN

\* C32: the step in which a transport opens writes one frame, the HANDSHAKE,
\* as the first frame on that transport, carrying the apiKey, the configured
\* worldId, the session's actorName and the metadata stored for that actor;
\* no other step writes a HANDSHAKE.
C32_HandshakeFirstAndOnce ==
    [][/\ \A t \in 1..MaxTransports : Opens(t) =>
              /\ \A i \in 1..Len(sent) : sent[i].t # t
              /\ sent' = Append(sent,
                     [BlankFrame EXCEPT
                         !.type = "HANDSHAKE", !.t = t, !.apiKey = ApiKey,
                         !.world = worldId, !.actor = actorName,
                         !.meta = IF actorName # None
                                  THEN actorMetadata[actorName] ELSE None])
       /\ \A i \in (Len(sent) + 1)..Len(sent') :
              sent'[i].type = "HANDSHAKE" => Opens(sent'[i].t)]_vars

\* C32 witness: two transports have opened; each has one HANDSHAKE, its
\* first frame; the second carries actor A with its metadata and the worldId
\* and is followed by another frame on that transport.
C32_Witness ==
    /\ Len(transports) = 2
    /\ Len(sent) = 3
    /\ sent[1].type = "HANDSHAKE" /\ sent[1].t = 1
    /\ sent[2].type = "HANDSHAKE" /\ sent[2].t = 2
    /\ sent[2].actor = "A" /\ sent[2].meta = "m1"
    /\ sent[2].world = "w1" /\ sent[2].apiKey = ApiKey
    /\ sent[3].type # "HANDSHAKE" /\ sent[3].t = 2

\* ---- a HANDSHAKE_RESPONSE on a Ready session
\* C33: a HANDSHAKE_RESPONSE frame received while the session is already
\* authenticated changes no session state: clientId, authenticated flag,
\* stored metadata and stored signatures stay as they are.
C33_SecondHandshakeResponseIgnored ==
    [][\A t \in 1..MaxTransports, m \in HandshakeResponses :
           (authenticated /\ ReceiveHandshakeResponse(t, m)) =>
               UNCHANGED <<clientId, authenticated, actorMetadata,
                           actorCommandSignatures>>]_vars

\* ---- overlapping actor(name, options) calls
\* actor(name, options) calls p and q overlapped on an unauthenticated
\* session: p made the connection attempt, q joined it while it was pending,
\* both have returned and the session is still authenticated on it.
Overlapped(p, q) ==
    /\ p # q
    /\ calls[p].kind = "actor" /\ calls[q].kind = "actor"
    /\ calls[p].opts # None /\ calls[q].opts # None
    /\ calls[p].name = calls[q].name
    /\ calls[p].joinedAs = "new" /\ calls[q].joinedAs = "pending"
    /\ calls[p].joined = calls[q].joined
    /\ calls[p].pc = "done" /\ calls[q].pc = "done"
    /\ calls[p].out = "resolved" /\ calls[q].out = "resolved"
    /\ authenticated /\ ws = calls[p].joined

\* C34: two overlapping actor(A, options) calls on an unauthenticated session
\* open one transport, send one HANDSHAKE, and announce each command of A
\* that has a handler with exactly one REGISTER_COMMAND frame.
C34_OverlappingActorCallsAnnounceOnce ==
    \A p, q \in CallIds :
        Overlapped(p, q) =>
            /\ Len(transports) = 1
            /\ Cardinality({i \in 1..Len(sent) : sent[i].type = "HANDSHAKE"}) = 1
            /\ \A c \in Commands :
                   HasHandler(Cur, calls[p].name, c) =>
                       Cardinality(RegisterFramesFor(calls[p].name, c, ws)) = 1

\* ---- end to end: a throwing handler and the caller's run()
HandlerThrows == HandlerOutcomes \ {"returns"}

\* C35: when the actor's handler for the COMMAND of a run() call has thrown
\* or rejected, whatever the thrown value, that run() call is never resolved
\* as a success.
C35_ThrowNeverResolvesCaller ==
    \A p \in CallIds, k \in 1..Len(tasks) :
        (/\ calls[p].kind = "runCommand"
         /\ calls[p].rid = tasks[k].rid
         /\ tasks[k].oc \in HandlerThrows) =>
            calls[p].out # "resolved"

\* ---- reply types and request kinds
\* Reply frame m arrives for a pending entry whose request is of another kind.
OtherKindReply(t, m) ==
    /\ pendingRequests[m.rid] # 0
    /\ m.type # ReplyTypeFor(calls[pendingRequests[m.rid]].kind)
    /\ ReceiveReply(t, m)

\* C36 (as claimed): a reply frame of another type than the one matching the
\* request's kind, with the requestId of a pending call, does not settle it.
C36_OnlyMatchingTypeSettles ==
    [][\A t \in 1..MaxTransports, m \in Replies :
           OtherKindReply(t, m) =>
               /\ pendingRequests'[m.rid] = pendingRequests[m.rid]
               /\ calls' = calls]_vars

\* C36 (amended): a RESPONSE, WORKFLOW_RESULT or WORKFLOW_LIST frame whose
\* requestId is in the pending table settles the call the table holds under
\* that id with what the frame carries and removes the entry, whatever the
\* kind of that call's request, and changes no other call; a
\* HANDSHAKE_RESPONSE frame leaves the pending table and every outstanding
\* call as they are.
C36_AnyReplyTypeSettles ==
    [][/\ \A t \in 1..MaxTransports, m \in Replies :
              (pendingRequests[m.rid] # 0 /\ ReceiveReply(t, m)) =>
                  LET p == pendingRequests[m.rid]
                  IN  /\ pendingRequests' = [pendingRequests EXCEPT ![m.rid] = 0]
                      /\ calls'[p].pc = "done"
                      /\ calls'[p].by = m.rid
                      /\ calls'[p].out = ReplyOutcome(m).out
                      /\ calls'[p].val = ReplyOutcome(m).val
                      /\ \A q \in CallIds \ {p} : calls'[q] = calls[q]
       /\ \A t \in 1..MaxTransports, m \in HandshakeResponses :
              ReceiveHandshakeResponse(t, m) =>
                  /\ UNCHANGED pendingRequests
                  /\ \A q \in CallIds : Outstanding(q) => calls'[q] = calls[q]]_vars

\* C36 witness: a workflow or runCommand call was resolved with the empty
\* list, the value only a WORKFLOW_LIST frame without workflows yields.
C36_Witness ==
    \E p \in CallIds :
        /\ calls[p].kind \in {"workflow", "runCommand"}
        /\ calls[p].pc = "done" /\ calls[p].out = "resolved"
        /\ calls[p].by = calls[p].rid
        /\ calls[p].val = "[]"

\* ---- replies that match no pending entry
\* C37: a RESPONSE, WORKFLOW_RESULT or WORKFLOW_LIST frame whose requestId is
\* not in the pending table settles no call and changes nothing: the pending
\* table and all other session state stay as they are.
C37_UnknownReplyChangesNothing ==
    [][\A t \in 1..MaxTransports, m \in Replies :
           (pendingRequests[m.rid] = 0 /\ ReceiveReply(t, m)) =>
               UNCHANGED session]_vars

\* C37 witness: one call has been settled by its reply and its id has left
\* the table, another call is still pending under another id, and the
\* transport is open to receive a duplicate of the first reply.
C37_Witness ==
    \E p, q \in CallIds :
        /\ calls[p].pc = "done" /\ calls[p].by = calls[p].rid
        /\ calls[p].by # 0
        /\ pendingRequests[calls[p].rid] = 0
        /\ calls[q].pc = "pending" /\ pendingRequests[calls[q].rid] = q
        /\ Receives(ws)

\* ---- how an entry leaves the pending table
\* The entry of call p under id is settled by a reply frame, its request
\* fails to send, or a transport closes, in this step.
LeavesAsSpecified(p, id) ==
    \/ /\ calls[p].pc # "done" /\ calls'[p].pc = "done"
       /\ calls'[p].by = id
    \/ /\ calls[p].pc # "done" /\ calls'[p].pc = "done"
       /\ calls'[p].out = "rejected" /\ calls'[p].val = NotConnectedError
    \/ \E t \in 1..MaxTransports : TransportClose(t)

\* C38: the entry a call holds in the pending table leaves the table only
\* through a reply frame with its requestId, a send failure of its own
\* request, or a close of the transport, and a pending call is settled only
\* by one of these.
C38_EntryLeavesOnlyAsSpecified ==
    [][/\ \A id \in RequestIds :
              (pendingRequests[id] # 0 /\ pendingRequests'[id] # pendingRequests[id]) =>
                  LeavesAsSpecified(pendingRequests[id], id)
       /\ \A p \in CallIds :
              (calls[p].pc = "pending" /\ calls'[p].pc = "done") =>
                  LeavesAsSpecified(p, calls[p].rid)]_vars

\* ---- disconnecting an actor
\* disconnectIfActor(name) finds the session authenticated as `name` on an
\* open transport.
DisconnectApplies(name) ==
    /\ authenticated
    /\ actorName = name
    /\ ws # 0
    /\ transports[ws].readyState = OPEN

\* C39: disconnectIfActor(name) starts closing the current transport, and
\* changes nothing else, when the session is authenticated, its actor name is
\* `name` and the transport is open; in every other case it changes nothing.
C39_DisconnectOnlyAsThatActor ==
    [][\A name \in Actors :
           DisconnectIfActor(name) =>
               IF DisconnectApplies(name)
               THEN /\ transports' = [transports EXCEPT ![ws].readyState = CLOSING]
                    /\ UNCHANGED <<worldId, ws, connected, authenticated, clientId,
                                   actorName, connectionPromise, connectionReject,
                                   pendingRequests, actorCommandHandlers,
                                   actorCommandSignatures, actorMetadata, promises,
                                   sent, calls, tasks, handles>>
               ELSE UNCHANGED session]_vars

\* C39 witness: the session is authenticated as actor B, whose disconnect has
\* started closing the second transport, after a first one was closed.
C39_Witness ==
    /\ authenticated
    /\ actorName = "B"
    /\ ws = 2
    /\ transports[ws].readyState = CLOSING
    /\ transports[1].readyState = CLOSED

\* ---- registering a command again
\* C40: the registry holds one handler per (actorName, commandName), the one
\* registered last: on(c, h) and registerActorCommandHandler(name, c, h, types)
\* leave h as the handler of the pair, and an inbound COMMAND for the pair
\* starts exactly one handler, the one the registry holds (after h1 and then
\* h2: h2 only).
C40_LastRegistrationWins ==
    [][/\ \A name \in Actors, c \in Commands, h \in Handlers :
              /\ ActorOn(name, c, h) => actorCommandHandlers'[name][c] = h
              /\ \A types \in ParameterTypeLists :
                     CallRegisterActorCommandHandler(name, c, h, types) =>
                         actorCommandHandlers'[name][c] = h
       /\ \A t \in 1..MaxTransports, m \in InboundCommands :
              (ReceiveCommand(t, m) /\ tasks' # tasks) =>
                  /\ actorCommandHandlers[m.target][m.cmd] # None
                  /\ Len(tasks') = Len(tasks) + 1
                  /\ tasks'[Len(tasks')].h = actorCommandHandlers[m.target][m.cmd]]_vars

\* C40 witness: c1 of actor A was announced with the signature of h1 and
\* later with that of h2; a COMMAND for it that arrived in between ran h1,
\* one that arrived afterwards ran h2, and both have been answered.
C40_Witness ==
    /\ actorCommandHandlers["A"]["c1"] = "h2"
    /\ \E i, j \in 1..Len(sent) :
           /\ i < j
           /\ sent[i].type = "REGISTER_COMMAND" /\ sent[i].cmd = "c1"
           /\ sent[i].sig = getParameterTypes("h1")
           /\ sent[j].type = "REGISTER_COMMAND" /\ sent[j].cmd = "c1"
           /\ sent[j].sig = getParameterTypes("h2")
    /\ Len(tasks) = 2
    /\ tasks[1].h = "h1" /\ tasks[1].st = "done"
    /\ tasks[2].h = "h2" /\ tasks[2].st = "done"
    /\ tasks[2].actor = "A" /\ tasks[2].cmd = "c1"
    /\ Cardinality({i \in 1..Len(sent) : sent[i].type = "RESPONSE"}) = 2

====
